---- MODULE Spec2Model ----
(***************************************************************************)
(* dynamic-flashcards: the flashcard generation handler                    *)
(* (server/src/handlers/generate_flashcards.ts), the answer grading        *)
(* handler (submit_answer) and the create handlers they depend on.         *)
(*                                                                         *)
(* A JavaScript string is a sequence of one-character strings, so that     *)
(* trim(), toLowerCase(), parseFloat() and Number.prototype.toString()     *)
(* are computed character by character.  A database table is the sequence  *)
(* of its rows in insertion order; `serial` ids are 1, 2, 3, ...  A select *)
(* returns rows in table order.  The created_at / answered_at columns      *)
(* (defaultNow) and the description of a data type are not modelled.       *)
(***************************************************************************)
EXTENDS Integers, Sequences, FiniteSets, TLC

VARIABLES
    dataTypes,       \* data_types table
    properties,      \* properties table
    instances,       \* instances table
    propertyValues,  \* property_values table
    flashcards,      \* flashcards table
    answers,         \* answers table
    last,            \* the last handler call: its input and what it returned or threw
    calls,           \* the number of handler calls so far
    fakeArgs,        \* generateFakeOptions studied on its own: its arguments
    fakeResult,      \* ... and its return value
    runs,            \* the generateFlashcards runs in progress, when they overlap
    player,          \* the client's FlashcardPlayer: its props and its state
    generator        \* the client's FlashcardGenerator: its state

\* the state of the client's components
ui == <<player, generator>>

vars == <<dataTypes, properties, instances, propertyValues, flashcards, answers,
          last, calls, fakeArgs, fakeResult, runs, player, generator>>

tables == <<dataTypes, properties, instances, propertyValues, flashcards, answers>>

-----------------------------------------------------------------------------
(* Bounds of the model *)

\* handler calls in one run of the server
MaxCalls == 7
\* rows one table holds
MaxRows == 2
\* rows the answers table holds
MaxAnswers == 3
\* flashcards the flashcards table holds
MaxFlashcards == 6
\* outcomes of one random sort: rotations of the array by 0..MaxRotation
MaxRotation == 1
\* submitAnswer calls against the fixture of the submit_answer tests
MaxSubmits == 1
\* handler calls in one run of the server with its read handlers
MaxReadCalls == 6
\* generateFlashcards runs that overlap
MaxRuns == 2
\* submitAnswer calls in a row against the fixture of the submit_answer tests
MaxRegrades == 3
\* handler calls of one round of generating and answering
MaxRoundCalls == 2
\* handler calls, settled or in flight, of the overlapping clients
MaxInterleaved == 2
\* generateFlashcards batches in the list the FlashcardPlayer is given
MaxBatches == 1
\* instances in the props of the FlashcardGenerator
MaxInstances == 2
\* clicks on a generating button of the FlashcardGenerator
MaxClicks == 1

-----------------------------------------------------------------------------
(* String literals of the source, and of the inputs the model draws *)

sEmpty == <<>>
sTrue == <<"t", "r", "u", "e">>
sFalse == <<"f", "a", "l", "s", "e">>
sT == <<"t">>
sF == <<"f">>
sYes == <<"y", "e", "s">>
sNo == <<"n", "o">>
sY == <<"y">>
sN == <<"n">>
s1 == <<"1">>
s0 == <<"0">>
sMaybe == <<"m", "a", "y", "b", "e">>
sUnknownLc == <<"u", "n", "k", "n", "o", "w", "n">>
s42 == <<"4", "2">>
s100 == <<"1", "0", "0">>
sNaN == <<"N", "a", "N">>
sInfinity == <<"I", "n", "f", "i", "n", "i", "t", "y">>
sUnknown == <<"U", "n", "k", "n", "o", "w", "n">>
sNotAvailable == <<"N", "o", "t", " ", "A", "v", "a", "i", "l", "a", "b", "l", "e">>
sPlaceholder == <<"P", "l", "a", "c", "e", "h", "o", "l", "d", "e", "r">>
sDefaultValue == <<"D", "e", "f", "a", "u", "l", "t", " ", "V", "a", "l", "u", "e">>
sSampleText == <<"S", "a", "m", "p", "l", "e", " ", "T", "e", "x", "t">>
sTestData == <<"T", "e", "s", "t", " ", "D", "a", "t", "a">>
sOptionPrefix == <<"O", "p", "t", "i", "o", "n", " ">>

\* inputs only
sTrueCap == <<"T", "r", "u", "e">>
sTRUE == <<"T", "R", "U", "E">>
sFalseCap == <<"F", "a", "l", "s", "e">>
sYesPadded == <<" ", "Y", "E", "S", " ">>
sNoUpper == <<"N", "O">>
sParis == <<"P", "a", "r", "i", "s">>
sParisPadded == <<" ", " ", "P", "A", "R", "I", "S", " ", " ">>
sParisLc == <<"p", "a", "r", "i", "s">>
sParisInner == <<"P", "a", " ", "r", "i", "s">>
sLondon == <<"L", "o", "n", "d", "o", "n">>
sBanana == <<"b", "a", "n", "a", "n", "a">>
s2 == <<"2">>
s5 == <<"5">>
s10 == <<"1", "0">>
sMinus1 == <<"-", "1">>
sMinus0 == <<"-", "0">>
sPlus3 == <<"+", "3">>
s7Padded == <<" ", "7">>
s7x == <<"7", "x">>
sAbc == <<"a", "b", "c">>
sMinus == <<"-">>
sOption1 == <<"O", "p", "t", "i", "o", "n", " ", "1">>
sOption3 == <<"O", "p", "t", "i", "o", "n", " ", "3">>
sSpace == <<" ">>

-----------------------------------------------------------------------------
(* String.prototype.trim / toLowerCase *)

WhiteSpace == {" ", "\t", "\n", "\r"}

UpperChars == <<"A", "B", "C", "D", "E", "F", "G", "H", "I", "J", "K", "L", "M",
                "N", "O", "P", "Q", "R", "S", "T", "U", "V", "W", "X", "Y", "Z">>
LowerChars == <<"a", "b", "c", "d", "e", "f", "g", "h", "i", "j", "k", "l", "m",
                "n", "o", "p", "q", "r", "s", "t", "u", "v", "w", "x", "y", "z">>

LowerChar(c) ==
    IF \E i \in DOMAIN UpperChars : UpperChars[i] = c
    THEN LowerChars[CHOOSE i \in DOMAIN UpperChars : UpperChars[i] = c]
    ELSE c

toLowerCase(s) == [i \in 1..Len(s) |-> LowerChar(s[i])]

RECURSIVE trimStart(_)
trimStart(s) ==
    IF s = <<>> THEN s
    ELSE IF Head(s) \in WhiteSpace THEN trimStart(Tail(s)) ELSE s

RECURSIVE trimEnd(_)
trimEnd(s) ==
    IF s = <<>> THEN s
    ELSE IF s[Len(s)] \in WhiteSpace THEN trimEnd(SubSeq(s, 1, Len(s) - 1)) ELSE s

trim(s) == trimEnd(trimStart(s))

\* Array.prototype.includes on an array of strings
includes(arr, x) == \E i \in DOMAIN arr : arr[i] = x

-----------------------------------------------------------------------------
(* parseFloat and Number.prototype.toString.                               *)
(* A number is NaN, +/-Infinity or a finite value.  parseFloat is modelled  *)
(* on the integer literals of StrDecimalLiteral: optional leading white     *)
(* space, an optional sign, "Infinity" or a run of digits, anything after   *)
(* that ignored.  The inputs of the model have no "." and no exponent, so   *)
(* every finite value is an integer below 2^53 and +, - and * are exact.    *)

Digits == <<"0", "1", "2", "3", "4", "5", "6", "7", "8", "9">>

IsDigit(c) == \E i \in DOMAIN Digits : Digits[i] = c
DigitVal(c) == (CHOOSE i \in DOMAIN Digits : Digits[i] = c) - 1

NaN == [kind |-> "nan", v |-> 0]
Infinity(sign) == [kind |-> "inf", v |-> sign]
Finite(n) == [kind |-> "fin", v |-> n]

StartsWith(s, p) == Len(s) >= Len(p) /\ SubSeq(s, 1, Len(p)) = p

RECURSIVE DigitRun(_)
DigitRun(s) ==
    IF s # <<>> /\ IsDigit(Head(s)) THEN <<Head(s)>> \o DigitRun(Tail(s)) ELSE <<>>

RECURSIVE DigitsValue(_)
DigitsValue(d) ==
    IF d = <<>> THEN 0
    ELSE 10 * DigitsValue(SubSeq(d, 1, Len(d) - 1)) + DigitVal(d[Len(d)])

parseFloat(s) ==
    LET t == trimStart(s)
        neg == t # <<>> /\ Head(t) = "-"
        signed == t # <<>> /\ Head(t) \in {"-", "+"}
        body == IF signed THEN Tail(t) ELSE t
        run == DigitRun(body)
    IN  IF StartsWith(body, sInfinity) THEN Infinity(IF neg THEN -1 ELSE 1)
        ELSE IF run = <<>> THEN NaN
        ELSE Finite(IF neg THEN -DigitsValue(run) ELSE DigitsValue(run))

isNaN(num) == num.kind = "nan"

\* num + k and num * k for a finite k > 0 (the code uses +1, + -1 and *2)
NumAdd(num, k) == IF num.kind = "fin" THEN Finite(num.v + k) ELSE num
NumMul(num, k) == IF num.kind = "fin" THEN Finite(num.v * k) ELSE num

RECURSIVE NatToString(_)
NatToString(n) ==
    IF n < 10 THEN <<Digits[n + 1]>>
    ELSE NatToString(n \div 10) \o <<Digits[(n % 10) + 1]>>

\* Number.prototype.toString, radix 10
NumberToString(num) ==
    CASE num.kind = "nan" -> sNaN
      [] num.kind = "inf" -> IF num.v < 0 THEN <<"-">> \o sInfinity ELSE sInfinity
      [] OTHER -> IF num.v < 0 THEN <<"-">> \o NatToString(-num.v)
                  ELSE NatToString(num.v)

-----------------------------------------------------------------------------
(* generateFakeOptions *)

PropertyTypes == {"string", "number", "boolean"}

commonFakes == <<sUnknown, sNotAvailable, sPlaceholder, sDefaultValue, sSampleText,
                 sTestData>>

\* filterNotEqual keeping every entry
filterNotEqual_keepAll(arr, x) == arr

\* Array.prototype.filter(fake => fake !== correctAnswer)
RECURSIVE filterNotEqual(_, _)
filterNotEqual(arr, x) ==
    IF arr = <<>> THEN <<>>
    ELSE IF Head(arr) # x THEN <<Head(arr)>> \o filterNotEqual(Tail(arr), x)
    ELSE filterNotEqual(Tail(arr), x)

\* firstThree taking two entries of the pool
firstThree_firstTwo(availableFakes) ==
    SubSeq(availableFakes, 1, IF Len(availableFakes) < 2 THEN Len(availableFakes) ELSE 2)

\* for (let i = 0; i < 3 && i < availableFakes.length; i++) fakeOptions.push(...)
firstThree(availableFakes) ==
    SubSeq(availableFakes, 1, IF Len(availableFakes) < 3 THEN Len(availableFakes) ELSE 3)

\* The value of a call whose while loop never ends: the loop body leaves
\* fakeOptions unchanged when the generic option equals the correct answer.
Diverges == <<<<"<", "l", "o", "o", "p", ">">>>>

\* while (fakeOptions.length < 3) { ... }
RECURSIVE whileFewerThanThree(_, _)
whileFewerThanThree(fakeOptions, correctAnswer) ==
    IF Len(fakeOptions) >= 3 THEN fakeOptions
    ELSE LET genericOption == sOptionPrefix \o NatToString(Len(fakeOptions) + 1)
         IN  IF genericOption # correctAnswer
             THEN whileFewerThanThree(Append(fakeOptions, genericOption), correctAnswer)
             ELSE Diverges

\* numberFakes testing the parsed number for truthiness (if (num)) where the
\* code tests !isNaN(num)
numberFakes_truthy(correctAnswer) ==
    LET num == parseFloat(correctAnswer)
    IN  IF ~isNaN(num) /\ num # Finite(0)
        THEN <<NumberToString(NumAdd(num, 1)),
               NumberToString(NumAdd(num, -1)),
               NumberToString(NumMul(num, 2))>>
        ELSE <<s42, s0, s100>>

numberFakes(correctAnswer) ==
    LET num == parseFloat(correctAnswer)
    IN  IF ~isNaN(num)
        THEN <<NumberToString(NumAdd(num, 1)),
               NumberToString(NumAdd(num, -1)),
               NumberToString(NumMul(num, 2))>>
        ELSE <<s42, s0, s100>>

booleanFakes(correctAnswer) ==
    <<IF correctAnswer = sTrue THEN sFalse ELSE sTrue, sMaybe, sUnknownLc>>

stringFakes(correctAnswer) ==
    whileFewerThanThree(firstThree(filterNotEqual(commonFakes, correctAnswer)),
                        correctAnswer)

generateFakeOptions(correctAnswer, propertyType) ==
    LET fakeOptions ==
            CASE propertyType = "number" -> numberFakes(correctAnswer)
              [] propertyType = "boolean" -> booleanFakes(correctAnswer)
              [] OTHER -> stringFakes(correctAnswer)
    IN  IF fakeOptions = Diverges THEN Diverges
        ELSE SubSeq(fakeOptions, 1, IF Len(fakeOptions) < 3 THEN Len(fakeOptions) ELSE 3)

-----------------------------------------------------------------------------
(* Rows and JSON values *)

FlashcardTypes == {"true_false", "multiple_choice", "fill_in_blank"}

\* the jsonb `options` column: null or an array of strings
JsNull == [tag |-> "null", items |-> <<>>]
JsArray(arr) == [tag |-> "array", items |-> arr]

\* db.select().from(table).where(eq(table.id, id))
selectById(table, id) == SelectSeq(table, LAMBDA row : row.id = id)

\* db.insert(table).values(rows).returning(): the rows with their serial ids
RECURSIVE withSerialIds(_, _)
withSerialIds(rows, lastId) ==
    IF rows = <<>> THEN <<>>
    ELSE <<[id |-> lastId + 1] @@ Head(rows)>> \o withSerialIds(Tail(rows), lastId + 1)

returning(table, rows) == withSerialIds(rows, Len(table))

\* What a handler call returned (ok, result) or threw (~ok, error)
Returned(op, input, rows) ==
    [op |-> op, input |-> input, ok |-> TRUE, error |-> <<>>, result |-> rows]
Threw(op, input, message) ==
    [op |-> op, input |-> input, ok |-> FALSE, error |-> message, result |-> <<>>]

NoCall == [op |-> "none", input |-> [id |-> 0], ok |-> TRUE, error |-> <<>>,
           result |-> <<>>]

-----------------------------------------------------------------------------
(* Inputs *)

sCountry == <<"C", "o", "u", "n", "t", "r", "y">>
sCapital == <<"c", "a", "p", "i", "t", "a", "l">>
sFrance == <<"F", "r", "a", "n", "c", "e">>

DataTypeNames == {sCountry}
PropertyNames == {sCapital}
InstanceNames == {sFrance}
Values == {s0, sFalse}
UserAnswers == {sYesPadded, sFalse}

\* the ids a caller may name: every stored id and one id that is not stored
IdsFor(table) == 1..(Len(table) + 1)

-----------------------------------------------------------------------------
(* createDataType, createProperty, createInstance, createPropertyValue *)

createDataType(name) ==
    /\ Len(dataTypes) < MaxRows
    /\ LET result == returning(dataTypes, <<[name |-> name]>>)
       IN  /\ dataTypes' = dataTypes \o result
           /\ last' = Returned("createDataType", [name |-> name], result)
    /\ UNCHANGED <<properties, instances, propertyValues, flashcards, answers,
                   fakeArgs, fakeResult, runs, ui>>

createProperty(type_id, name, property_type) ==
    LET input == [type_id |-> type_id, name |-> name, property_type |-> property_type]
        existingDataType == selectById(dataTypes, type_id)
    IN  IF Len(existingDataType) = 0
        THEN /\ last' = Threw("createProperty", input,
                              <<"Data type with ID ", type_id, " does not exist">>)
             /\ UNCHANGED <<tables, fakeArgs, fakeResult, runs, ui>>
        ELSE /\ Len(properties) < MaxRows
             /\ LET result == returning(properties, <<input>>)
                IN  /\ properties' = properties \o result
                    /\ last' = Returned("createProperty", input, result)
             /\ UNCHANGED <<dataTypes, instances, propertyValues, flashcards, answers,
                            fakeArgs, fakeResult, runs, ui>>

createInstance(type_id, name) ==
    LET input == [type_id |-> type_id, name |-> name]
        dataType == selectById(dataTypes, type_id)
    IN  IF Len(dataType) = 0
        THEN /\ last' = Threw("createInstance", input,
                              <<"Data type with id ", type_id, " not found">>)
             /\ UNCHANGED <<tables, fakeArgs, fakeResult, runs, ui>>
        ELSE /\ Len(instances) < MaxRows
             /\ LET result == returning(instances, <<input>>)
                IN  /\ instances' = instances \o result
                    /\ last' = Returned("createInstance", input, result)
             /\ UNCHANGED <<dataTypes, properties, propertyValues, flashcards, answers,
                            fakeArgs, fakeResult, runs, ui>>

\* createPropertyValue without the look-up of the property
createPropertyValue_noPropertyCheck(instance_id, property_id, value) ==
    LET input == [instance_id |-> instance_id, property_id |-> property_id,
                  value |-> value]
        instanceExists == selectById(instances, instance_id)
    IN  IF Len(instanceExists) = 0
        THEN /\ last' = Threw("createPropertyValue", input,
                              <<"Instance with id ", instance_id, " does not exist">>)
             /\ UNCHANGED <<tables, fakeArgs, fakeResult, runs, ui>>
        ELSE /\ Len(propertyValues) < MaxRows
             /\ LET result == returning(propertyValues, <<input>>)
                IN  /\ propertyValues' = propertyValues \o result
                    /\ last' = Returned("createPropertyValue", input, result)
             /\ UNCHANGED <<dataTypes, properties, instances, flashcards, answers,
                            fakeArgs, fakeResult, runs, ui>>

createPropertyValue(instance_id, property_id, value) ==
    LET input == [instance_id |-> instance_id, property_id |-> property_id,
                  value |-> value]
        instanceExists == selectById(instances, instance_id)
        propertyExists == selectById(properties, property_id)
    IN  IF Len(instanceExists) = 0
        THEN /\ last' = Threw("createPropertyValue", input,
                              <<"Instance with id ", instance_id, " does not exist">>)
             /\ UNCHANGED <<tables, fakeArgs, fakeResult, runs, ui>>
        ELSE IF Len(propertyExists) = 0
        THEN /\ last' = Threw("createPropertyValue", input,
                              <<"Property with id ", property_id, " does not exist">>)
             /\ UNCHANGED <<tables, fakeArgs, fakeResult, runs, ui>>
        ELSE /\ Len(propertyValues) < MaxRows
             /\ LET result == returning(propertyValues, <<input>>)
                IN  /\ propertyValues' = propertyValues \o result
                    /\ last' = Returned("createPropertyValue", input, result)
             /\ UNCHANGED <<dataTypes, properties, instances, flashcards, answers,
                            fakeArgs, fakeResult, runs, ui>>

-----------------------------------------------------------------------------
(* generateFlashcards *)

sIsThe == <<"I", "s", " ", "t", "h", "e", " ">>
sWhatIsThe == <<"W", "h", "a", "t", " ", "i", "s", " ", "t", "h", "e", " ">>
sOfQuote == <<" ", "o", "f", " ", "'">>
sEqualTo == <<"'", " ", "e", "q", "u", "a", "l", " ", "t", "o", " ", "'">>
sQuoteQ == <<"'", "?">>

\* trueFalseFlashcard taking the stored value of a boolean property as the
\* correct answer
trueFalseFlashcard_booleanValue(instance_id, instance, property, propertyValue) ==
    [instance_id |-> instance_id,
     property_id |-> property.id,
     flashcard_type |-> "true_false",
     question |-> sIsThe \o property.name \o sOfQuote \o instance.name
                  \o sEqualTo \o propertyValue.value \o sQuoteQ,
     correct_answer |-> IF property.property_type = "boolean"
                        THEN propertyValue.value ELSE sTrue,
     options |-> JsNull]

\* trueFalseFlashcard taking the stored value as the correct answer
trueFalseFlashcard_valueAsAnswer(instance_id, instance, property, propertyValue) ==
    [instance_id |-> instance_id,
     property_id |-> property.id,
     flashcard_type |-> "true_false",
     question |-> sIsThe \o property.name \o sOfQuote \o instance.name
                  \o sEqualTo \o propertyValue.value \o sQuoteQ,
     correct_answer |-> propertyValue.value,
     options |-> JsNull]

trueFalseFlashcard(instance_id, instance, property, propertyValue) ==
    [instance_id |-> instance_id,
     property_id |-> property.id,
     flashcard_type |-> "true_false",
     question |-> sIsThe \o property.name \o sOfQuote \o instance.name
                  \o sEqualTo \o propertyValue.value \o sQuoteQ,
     correct_answer |-> sTrue,
     options |-> JsNull]

multipleChoiceFlashcard(instance_id, instance, property, propertyValue, shuffledOptions) ==
    [instance_id |-> instance_id,
     property_id |-> property.id,
     flashcard_type |-> "multiple_choice",
     question |-> sWhatIsThe \o property.name \o sOfQuote \o instance.name \o sQuoteQ,
     correct_answer |-> propertyValue.value,
     options |-> JsArray(shuffledOptions)]

\* fillInBlankFlashcard carrying the answer as a one-entry options list
fillInBlankFlashcard_withOptions(instance_id, instance, property, propertyValue) ==
    [instance_id |-> instance_id,
     property_id |-> property.id,
     flashcard_type |-> "fill_in_blank",
     question |-> sWhatIsThe \o property.name \o sOfQuote \o instance.name \o sQuoteQ,
     correct_answer |-> propertyValue.value,
     options |-> JsArray(<<propertyValue.value>>)]

fillInBlankFlashcard(instance_id, instance, property, propertyValue) ==
    [instance_id |-> instance_id,
     property_id |-> property.id,
     flashcard_type |-> "fill_in_blank",
     question |-> sWhatIsThe \o property.name \o sOfQuote \o instance.name \o sQuoteQ,
     correct_answer |-> propertyValue.value,
     options |-> JsNull]

\* const allOptions = [correctAnswer, ...fakeOptions]
allOptionsOf(propertyValue, property) ==
    <<propertyValue.value>> \o generateFakeOptions(propertyValue.value,
                                                   property.property_type)

\* allOptions.sort(() => Math.random() - 0.5): the comparator is random, so
\* the result is some rearrangement of the array, chosen by the run.  The
\* model draws the rearrangement from the rotations by 0..MaxRotation.
Rotation(k) == [i \in 1..4 |-> ((i + k - 1) % 4) + 1]
ShuffleOutcomes == {Rotation(k) : k \in 0..MaxRotation}

sortRandom(arr, perm) == [i \in 1..Len(arr) |-> arr[perm[i]]]

\* cardsForRow with the fill-in-blank card left out of the push
cardsForRow_noFillInBlank(instance_id, instance, row, perm) ==
    <<trueFalseFlashcard(instance_id, instance, row.properties, row.property_values),
      multipleChoiceFlashcard(instance_id, instance, row.properties, row.property_values,
          sortRandom(allOptionsOf(row.property_values, row.properties), perm))>>

\* cardsForRow pushing the fill-in-blank card first
cardsForRow_fillInBlankFirst(instance_id, instance, row, perm) ==
    <<fillInBlankFlashcard(instance_id, instance, row.properties, row.property_values),
      trueFalseFlashcard(instance_id, instance, row.properties, row.property_values),
      multipleChoiceFlashcard(instance_id, instance, row.properties, row.property_values,
          sortRandom(allOptionsOf(row.property_values, row.properties), perm))>>

\* the three cards pushed for one row of the join
cardsForRow(instance_id, instance, row, perm) ==
    <<trueFalseFlashcard(instance_id, instance, row.properties, row.property_values),
      multipleChoiceFlashcard(instance_id, instance, row.properties, row.property_values,
          sortRandom(allOptionsOf(row.property_values, row.properties), perm)),
      fillInBlankFlashcard(instance_id, instance, row.properties, row.property_values)>>

\* for (const result of propertyValuesResult) { ... flashcardsToInsert.push(...) }
RECURSIVE buildFlashcards(_, _, _, _)
buildFlashcards(instance_id, instance, rows, perms) ==
    IF rows = <<>> THEN <<>>
    ELSE cardsForRow(instance_id, instance, Head(rows), Head(perms))
         \o buildFlashcards(instance_id, instance, Tail(rows), Tail(perms))

\* property_values INNER JOIN properties ON property_id = properties.id
\* WHERE property_values.instance_id = instance_id, in the order of the table
RECURSIVE joinProperties(_, _)
joinProperties(pvs, instance_id) ==
    IF pvs = <<>> THEN <<>>
    ELSE LET pv == Head(pvs)
             matches == selectById(properties, pv.property_id)
             here == IF pv.instance_id = instance_id
                     THEN [i \in 1..Len(matches) |->
                              [property_values |-> pv, properties |-> matches[i]]]
                     ELSE <<>>
         IN  here \o joinProperties(Tail(pvs), instance_id)

\* noPropertyValues with the length check left out
noPropertyValues_unchecked(propertyValuesResult) == FALSE

\* if (propertyValuesResult.length === 0)
noPropertyValues(propertyValuesResult) == Len(propertyValuesResult) = 0

\* instanceNotFoundError with the id left out of the message
instanceNotFoundError_noId(instance_id) == <<"Instance not found">>

instanceNotFoundError(instance_id) == <<"Instance with id ", instance_id, " not found">>

noPropertyValuesError(instance_id) ==
    <<"No property values found for instance ", instance_id>>

\* insertFlashcards as a regeneration: the instance's earlier flashcards are
\* deleted before the batch is inserted
insertFlashcards_replace(flashcardsToInsert) ==
    LET kept == SelectSeq(flashcards,
                    LAMBDA row : \A i \in DOMAIN flashcardsToInsert :
                                    row.instance_id # flashcardsToInsert[i].instance_id)
    IN  kept \o returning(flashcards, flashcardsToInsert)

\* insertFlashcards storing one row per statement: the first row of the batch
insertFlashcards_firstRow(flashcardsToInsert) ==
    flashcards \o returning(flashcards, SubSeq(flashcardsToInsert, 1, 1))

\* db.insert(flashcardsTable).values(flashcardsToInsert).returning(): the
\* table afterwards; one statement inserts the whole batch
insertFlashcards(flashcardsToInsert) ==
    flashcards \o returning(flashcards, flashcardsToInsert)

generateFlashcards(instance_id) ==
    LET input == [instance_id |-> instance_id]
        instanceResult == selectById(instances, instance_id)
        propertyValuesResult == joinProperties(propertyValues, instance_id)
    IN  IF Len(instanceResult) = 0
        THEN /\ last' = Threw("generateFlashcards", input,
                              instanceNotFoundError(instance_id))
             /\ UNCHANGED <<tables, fakeArgs, fakeResult, runs, ui>>
        ELSE IF noPropertyValues(propertyValuesResult)
        THEN /\ last' = Threw("generateFlashcards", input,
                              noPropertyValuesError(instance_id))
             /\ UNCHANGED <<tables, fakeArgs, fakeResult, runs, ui>>
        ELSE /\ Len(flashcards) + 3 * Len(propertyValuesResult) <= MaxFlashcards
             \* every generateFakeOptions call of the run returns
             /\ \A i \in DOMAIN propertyValuesResult :
                   generateFakeOptions(propertyValuesResult[i].property_values.value,
                       propertyValuesResult[i].properties.property_type) # Diverges
             /\ \E perms \in [DOMAIN propertyValuesResult -> ShuffleOutcomes] :
                   LET flashcardsToInsert ==
                           buildFlashcards(instance_id, instanceResult[1],
                                           propertyValuesResult, perms)
                       insertedFlashcards == returning(flashcards, flashcardsToInsert)
                   IN  /\ flashcards' = insertFlashcards(flashcardsToInsert)
                       /\ last' = Returned("generateFlashcards", input,
                                           insertedFlashcards)
             /\ UNCHANGED <<dataTypes, properties, instances, propertyValues, answers,
                            fakeArgs, fakeResult, runs, ui>>

-----------------------------------------------------------------------------
(* submitAnswer *)

trueVariations == <<sTrue, sT, sYes, sY, s1>>
falseVariations == <<sFalse, sF, sNo, sN, s0>>

\* isCorrectFor, true_false branch requiring the correct answer to be a false
\* variation where the code requires it not to be a true variation
isCorrectFor_correctMustBeFalse(flashcard, user_answer) ==
    LET userAnswer == trim(user_answer)
        correctAnswer == trim(flashcard.correct_answer)
    IN  IF flashcard.flashcard_type = "true_false"
        THEN LET normalizedUserAnswer == toLowerCase(userAnswer)
                 normalizedCorrectAnswer == toLowerCase(correctAnswer)
                 userIsTrue == includes(trueVariations, normalizedUserAnswer)
                 userIsFalse == includes(falseVariations, normalizedUserAnswer)
                 correctIsTrue == includes(trueVariations, normalizedCorrectAnswer)
                 correctIsFalse == includes(falseVariations, normalizedCorrectAnswer)
             IN  (userIsTrue /\ correctIsTrue) \/ (userIsFalse /\ correctIsFalse)
        ELSE toLowerCase(userAnswer) = toLowerCase(correctAnswer)

\* isCorrectFor, true_false branch taking every user answer that is not a
\* true variation as false
isCorrectFor_unknownIsFalse(flashcard, user_answer) ==
    LET userAnswer == trim(user_answer)
        correctAnswer == trim(flashcard.correct_answer)
    IN  IF flashcard.flashcard_type = "true_false"
        THEN LET normalizedUserAnswer == toLowerCase(userAnswer)
                 normalizedCorrectAnswer == toLowerCase(correctAnswer)
                 userIsTrue == includes(trueVariations, normalizedUserAnswer)
                 correctIsTrue == includes(trueVariations, normalizedCorrectAnswer)
             IN  (userIsTrue /\ correctIsTrue) \/ (~userIsTrue /\ ~correctIsTrue)
        ELSE toLowerCase(userAnswer) = toLowerCase(correctAnswer)

\* isCorrectFor without the two trim() calls
isCorrectFor_noTrim(flashcard, user_answer) ==
    LET userAnswer == user_answer
        correctAnswer == flashcard.correct_answer
    IN  IF flashcard.flashcard_type = "true_false"
        THEN LET normalizedUserAnswer == toLowerCase(userAnswer)
                 normalizedCorrectAnswer == toLowerCase(correctAnswer)
                 userIsTrue == includes(trueVariations, normalizedUserAnswer)
                 userIsFalse == includes(falseVariations, normalizedUserAnswer)
                 correctIsTrue == includes(trueVariations, normalizedCorrectAnswer)
             IN  (userIsTrue /\ correctIsTrue) \/ (userIsFalse /\ ~correctIsTrue)
        ELSE toLowerCase(userAnswer) = toLowerCase(correctAnswer)

\* step 2 of submitAnswer: compare user answer with correct answer
isCorrectFor(flashcard, user_answer) ==
    LET userAnswer == trim(user_answer)
        correctAnswer == trim(flashcard.correct_answer)
    IN  IF flashcard.flashcard_type = "true_false"
        THEN LET normalizedUserAnswer == toLowerCase(userAnswer)
                 normalizedCorrectAnswer == toLowerCase(correctAnswer)
                 userIsTrue == includes(trueVariations, normalizedUserAnswer)
                 userIsFalse == includes(falseVariations, normalizedUserAnswer)
                 correctIsTrue == includes(trueVariations, normalizedCorrectAnswer)
             IN  (userIsTrue /\ correctIsTrue) \/ (userIsFalse /\ ~correctIsTrue)
        ELSE toLowerCase(userAnswer) = toLowerCase(correctAnswer)

\* answerValues counting only the first answer to a flashcard as correct
answerValues_firstAttemptOnly(flashcard_id, user_answer, isCorrect) ==
    [flashcard_id |-> flashcard_id, user_answer |-> user_answer,
     is_correct |-> isCorrect /\ \A i \in DOMAIN answers :
                                    answers[i].flashcard_id # flashcard_id]

\* answerValues storing the trimmed comparison copy of the answer
answerValues_trimmed(flashcard_id, user_answer, isCorrect) ==
    [flashcard_id |-> flashcard_id, user_answer |-> trim(user_answer),
     is_correct |-> isCorrect]

\* step 3 of submitAnswer: the row handed to db.insert(answersTable)
answerValues(flashcard_id, user_answer, isCorrect) ==
    [flashcard_id |-> flashcard_id, user_answer |-> user_answer, is_correct |-> isCorrect]

\* insertAnswer as an upsert on flashcard_id: a flashcard's earlier answer is
\* overwritten in place
insertAnswer_upsert(values) ==
    IF \E i \in DOMAIN answers : answers[i].flashcard_id = values.flashcard_id
    THEN LET kept == SelectSeq(answers,
                         LAMBDA row : row.flashcard_id # values.flashcard_id)
             old == CHOOSE i \in DOMAIN answers :
                        answers[i].flashcard_id = values.flashcard_id
         IN  kept \o <<[id |-> answers[old].id] @@ values>>
    ELSE answers \o returning(answers, <<values>>)

\* db.insert(answersTable).values({...}).returning(): the table afterwards
insertAnswer(values) == answers \o returning(answers, <<values>>)

flashcardNotFoundError(flashcard_id) ==
    <<"Flashcard with id ", flashcard_id, " not found">>

submitAnswer(flashcard_id, user_answer) ==
    LET input == [flashcard_id |-> flashcard_id, user_answer |-> user_answer]
        found == selectById(flashcards, flashcard_id)
    IN  IF Len(found) = 0
        THEN /\ last' = Threw("submitAnswer", input,
                              flashcardNotFoundError(flashcard_id))
             /\ UNCHANGED <<tables, fakeArgs, fakeResult, runs, ui>>
        ELSE /\ Len(answers) < MaxAnswers
             /\ LET isCorrect == isCorrectFor(found[1], user_answer)
                    inserted == insertAnswer(
                                    answerValues(flashcard_id, user_answer, isCorrect))
                    result == <<inserted[Len(inserted)]>>
                IN  /\ answers' = inserted
                    /\ last' = Returned("submitAnswer", input, <<result[1]>>)
             /\ UNCHANGED <<dataTypes, properties, instances, propertyValues, flashcards,
                            fakeArgs, fakeResult, runs, ui>>

-----------------------------------------------------------------------------
(* The read handlers. Each one only selects; a handler without arguments  *)
(* has the input NoInput.                                                  *)

NoInput == [none |-> TRUE]

\* options: flashcard.options ? (flashcard.options as string[]) : null
castOptions(flashcard) ==
    [flashcard EXCEPT !.options = IF @.tag = "null" THEN JsNull ELSE @]

getFlashcards ==
    /\ last' = Returned("getFlashcards", NoInput,
                        [i \in DOMAIN flashcards |-> castOptions(flashcards[i])])
    /\ UNCHANGED <<tables, fakeArgs, fakeResult, runs, ui>>

getFlashcardsByInstance(instanceId) ==
    LET results == SelectSeq(flashcards, LAMBDA row : row.instance_id = instanceId)
    IN  /\ last' = Returned("getFlashcardsByInstance", [instanceId |-> instanceId],
                            [i \in DOMAIN results |-> castOptions(results[i])])
        /\ UNCHANGED <<tables, fakeArgs, fakeResult, runs, ui>>

\* the result is the flashcard, or null (here: no row) when the id is unknown
getFlashcardById(id) ==
    LET results == selectById(flashcards, id)
    IN  /\ last' = Returned("getFlashcardById", [id |-> id],
                            IF Len(results) = 0 THEN <<>>
                            ELSE <<castOptions(results[1])>>)
        /\ UNCHANGED <<tables, fakeArgs, fakeResult, runs, ui>>

\* one property value of an instance with its property nested in it
withProperty(result) ==
    result.property_values @@ [property |-> result.properties]

\* withValues without the filter on the instance: every stored property value
withValues_allValues(instance) ==
    instance @@ [property_values |->
                    [i \in DOMAIN propertyValues |->
                        withProperty([property_values |-> propertyValues[i],
                                      properties |->
                                          properties[propertyValues[i].property_id]])]]

\* an instance with the property values stored for it
withValues(instance) ==
    instance @@ [property_values |->
                    LET results == joinProperties(propertyValues, instance.id)
                    IN  [i \in DOMAIN results |-> withProperty(results[i])]]

\* a data type with the properties defined for it
withProperties(dataType) ==
    dataType @@ [properties |->
                    SelectSeq(properties, LAMBDA row : row.type_id = dataType.id)]

getDataTypes ==
    /\ last' = Returned("getDataTypes", NoInput,
                        [i \in DOMAIN dataTypes |-> withProperties(dataTypes[i])])
    /\ UNCHANGED <<tables, fakeArgs, fakeResult, runs, ui>>

getInstances ==
    /\ last' = Returned("getInstances", NoInput,
                        [i \in DOMAIN instances |-> withValues(instances[i])])
    /\ UNCHANGED <<tables, fakeArgs, fakeResult, runs, ui>>

getInstancesByType(typeId) ==
    LET found == SelectSeq(instances, LAMBDA row : row.type_id = typeId)
    IN  /\ last' = Returned("getInstancesByType", [typeId |-> typeId],
                            IF Len(found) = 0 THEN <<>>
                            ELSE [i \in DOMAIN found |-> withValues(found[i])])
        /\ UNCHANGED <<tables, fakeArgs, fakeResult, runs, ui>>

-----------------------------------------------------------------------------
(* The server: an empty database, then any sequence of handler calls *)

NoArgs == [correctAnswer |-> <<>>, propertyType |-> "none"]
NoResult == [done |-> FALSE, value |-> <<>>]
\* no generation run is in progress: the handlers are called one at a time
NoRuns == <<>>
\* the client's components are not mounted: the server is studied on its own
NoPlayer == [mounted |-> FALSE]
NoGenerator == [mounted |-> FALSE]

Init ==
    /\ dataTypes = <<>>
    /\ properties = <<>>
    /\ instances = <<>>
    /\ propertyValues = <<>>
    /\ flashcards = <<>>
    /\ answers = <<>>
    /\ last = NoCall
    /\ calls = 0
    /\ fakeArgs = NoArgs
    /\ fakeResult = NoResult
    /\ runs = NoRuns
    /\ player = NoPlayer
    /\ generator = NoGenerator

\* one more handler call
Called == calls < MaxCalls /\ calls' = calls + 1

Next ==
    \/ \E name \in DataTypeNames : Called /\ createDataType(name)
    \/ \E type_id \in IdsFor(dataTypes), name \in PropertyNames, pt \in PropertyTypes :
          Called /\ createProperty(type_id, name, pt)
    \/ \E type_id \in IdsFor(dataTypes), name \in InstanceNames :
          Called /\ createInstance(type_id, name)
    \/ \E instance_id \in IdsFor(instances), property_id \in IdsFor(properties),
          value \in Values :
          Called /\ createPropertyValue(instance_id, property_id, value)
    \/ \E instance_id \in IdsFor(instances) :
          Called /\ generateFlashcards(instance_id)
    \/ \E flashcard_id \in IdsFor(flashcards), user_answer \in UserAnswers :
          Called /\ submitAnswer(flashcard_id, user_answer)

Spec == Init /\ [][Next]_vars

\* the same server with its read handlers called between the other calls
ReadCalled == calls < MaxReadCalls /\ calls' = calls + 1

NextReads ==
    \/ calls < MaxReadCalls /\ Next
    \/ ReadCalled /\ getFlashcards
    \/ \E instanceId \in IdsFor(instances) :
          ReadCalled /\ getFlashcardsByInstance(instanceId)
    \/ \E id \in IdsFor(flashcards) : ReadCalled /\ getFlashcardById(id)
    \/ ReadCalled /\ getDataTypes
    \/ ReadCalled /\ getInstances
    \/ \E typeId \in IdsFor(dataTypes) : ReadCalled /\ getInstancesByType(typeId)

SpecReads == Init /\ [][NextReads]_vars

-----------------------------------------------------------------------------
(* generateFakeOptions on its own: one call on arguments drawn from        *)
(* FakeCorrectAnswers and PropertyTypes                                     *)

FakeCorrectAnswers ==
    {sEmpty, s0, s1, s2, s5, s10, s100, s42, sMinus1, sMinus0, sPlus3, s7Padded, s7x,
     sAbc, sMinus, sInfinity, sTrue, sFalse, sTrueCap, sMaybe, sUnknownLc, sUnknown,
     sNotAvailable, sPlaceholder, sTestData, sOption1, sOption3, sParis}

InitFake ==
    /\ dataTypes = <<>>
    /\ properties = <<>>
    /\ instances = <<>>
    /\ propertyValues = <<>>
    /\ flashcards = <<>>
    /\ answers = <<>>
    /\ last = NoCall
    /\ calls = 0
    /\ fakeArgs \in [correctAnswer : FakeCorrectAnswers, propertyType : PropertyTypes]
    /\ fakeResult = NoResult
    /\ runs = NoRuns
    /\ player = NoPlayer
    /\ generator = NoGenerator

callGenerateFakeOptions ==
    /\ ~fakeResult.done
    /\ fakeResult' = [done |-> TRUE,
                      value |-> generateFakeOptions(fakeArgs.correctAnswer,
                                                    fakeArgs.propertyType)]
    /\ UNCHANGED <<tables, last, calls, fakeArgs, runs, ui>>

NextFake == callGenerateFakeOptions

SpecFake == InitFake /\ [][NextFake]_vars

-----------------------------------------------------------------------------
(* submitAnswer against the fixture of the submit_answer tests: one data    *)
(* type, one property, one instance, and one flashcard of any type and any  *)
(* correct answer inserted directly into the flashcards table               *)

sTestType == <<"T", "e", "s", "t", " ", "T", "y", "p", "e">>
sTestProperty == <<"T", "e", "s", "t", " ", "P", "r", "o", "p", "e", "r", "t", "y">>
sTestInstance == <<"T", "e", "s", "t", " ", "I", "n", "s", "t", "a", "n", "c", "e">>
sQuestion == <<"Q", "?">>

GradeCorrectAnswers ==
    {sTrue, sFalse, sTrueCap, sYesPadded, s0, s1, sNo, sBanana, sParis, sParisPadded,
     sEmpty}
GradeUserAnswers ==
    {sTrue, sTRUE, sT, sYes, sY, s1, sFalse, sFalseCap, sF, sNoUpper, sN, s0, sYesPadded,
     sBanana, sParis, sParisPadded, sParisLc, sParisInner, sLondon, sEmpty, sSpace}

createTestData(flashcard_type, correct_answer) ==
    /\ dataTypes = <<[id |-> 1, name |-> sTestType]>>
    /\ properties = <<[id |-> 1, type_id |-> 1, name |-> sTestProperty,
                       property_type |-> "string"]>>
    /\ instances = <<[id |-> 1, type_id |-> 1, name |-> sTestInstance]>>
    /\ propertyValues = <<>>
    /\ flashcards = <<[id |-> 1, instance_id |-> 1, property_id |-> 1,
                       flashcard_type |-> flashcard_type, question |-> sQuestion,
                       correct_answer |-> correct_answer,
                       options |-> IF flashcard_type = "multiple_choice"
                                   THEN JsArray(<<correct_answer, sLondon, sBanana, sAbc>>)
                                   ELSE JsNull]>>
    /\ answers = <<>>

InitGrade ==
    /\ \E flashcard_type \in FlashcardTypes, correct_answer \in GradeCorrectAnswers :
          createTestData(flashcard_type, correct_answer)
    /\ last = NoCall
    /\ calls = 0
    /\ fakeArgs = NoArgs
    /\ fakeResult = NoResult
    /\ runs = NoRuns
    /\ player = NoPlayer
    /\ generator = NoGenerator

NextGrade ==
    \E flashcard_id \in IdsFor(flashcards), user_answer \in GradeUserAnswers :
        /\ calls < MaxSubmits
        /\ calls' = calls + 1
        /\ submitAnswer(flashcard_id, user_answer)

SpecGrade == InitGrade /\ [][NextGrade]_vars

\* the same fixture answered several times in a row
NextRegrade ==
    \E flashcard_id \in IdsFor(flashcards), user_answer \in UserAnswers :
        /\ calls < MaxRegrades
        /\ calls' = calls + 1
        /\ submitAnswer(flashcard_id, user_answer)

SpecRegrade == InitGrade /\ [][NextRegrade]_vars

-----------------------------------------------------------------------------
(* Overlapping generateFlashcards runs. The handler is an async function   *)
(* with three awaited statements (select the instance, select the joined   *)
(* property values, insert the batch); between two of them the server      *)
(* serves other requests. Each statement is atomic in the database. The    *)
(* database is the one of the generate_flashcards tests: France with its   *)
(* capital and its population.                                             *)

sPopulation == <<"p", "o", "p", "u", "l", "a", "t", "i", "o", "n">>
s67000000 == <<"6", "7", "0", "0", "0", "0", "0", "0">>

IdleRun ==
    [pc |-> "idle", instance_id |-> 0, instanceResult |-> <<>>,
     propertyValuesResult |-> <<>>, flashcardsToInsert |-> <<>>,
     insertedFlashcards |-> <<>>, op |-> "none", input |-> NoInput]

InitRuns ==
    /\ dataTypes = <<[id |-> 1, name |-> sCountry]>>
    /\ properties = <<[id |-> 1, type_id |-> 1, name |-> sCapital,
                       property_type |-> "string"],
                      [id |-> 2, type_id |-> 1, name |-> sPopulation,
                       property_type |-> "number"]>>
    /\ instances = <<[id |-> 1, type_id |-> 1, name |-> sFrance]>>
    /\ propertyValues = <<[id |-> 1, instance_id |-> 1, property_id |-> 1,
                           value |-> sParis],
                          [id |-> 2, instance_id |-> 1, property_id |-> 2,
                           value |-> s67000000]>>
    /\ flashcards = <<>>
    /\ answers = <<>>
    /\ last = NoCall
    /\ calls = 0
    /\ fakeArgs = NoArgs
    /\ fakeResult = NoResult
    /\ runs = [r \in 1..MaxRuns |-> IdleRun]
    /\ player = NoPlayer
    /\ generator = NoGenerator

\* a run that threw or returned
finished(r, outcome) ==
    /\ last' = outcome
    /\ calls' = calls + 1

\* a run suspended at its next await
suspended(r) == UNCHANGED <<last, calls>>

\* the call and its first statement: select the instance
selectInstance(r, instance_id) ==
    LET input == [instance_id |-> instance_id]
        instanceResult == selectById(instances, instance_id)
    IN  /\ runs[r].pc = "idle"
        /\ IF Len(instanceResult) = 0
           THEN /\ runs' = [runs EXCEPT ![r] = [@ EXCEPT !.pc = "done",
                                                         !.instance_id = instance_id]]
                /\ finished(r, Threw("generateFlashcards", input,
                                     instanceNotFoundError(instance_id)))
           ELSE /\ runs' = [runs EXCEPT ![r] = [@ EXCEPT !.pc = "selectPropertyValues",
                                                         !.instance_id = instance_id,
                                                         !.instanceResult = instanceResult]]
                /\ suspended(r)
        /\ UNCHANGED <<tables, fakeArgs, fakeResult, ui>>

\* the second statement, select the joined property values, and the loop
\* that builds the batch
selectPropertyValues(r) ==
    LET instance_id == runs[r].instance_id
        input == [instance_id |-> instance_id]
        propertyValuesResult == joinProperties(propertyValues, instance_id)
    IN  /\ runs[r].pc = "selectPropertyValues"
        /\ IF noPropertyValues(propertyValuesResult)
           THEN /\ runs' = [runs EXCEPT ![r] = [@ EXCEPT !.pc = "done"]]
                /\ finished(r, Threw("generateFlashcards", input,
                                     noPropertyValuesError(instance_id)))
           ELSE /\ \E perms \in [DOMAIN propertyValuesResult -> ShuffleOutcomes] :
                      runs' = [runs EXCEPT ![r] =
                                  [@ EXCEPT !.pc = "insert",
                                            !.propertyValuesResult = propertyValuesResult,
                                            !.flashcardsToInsert =
                                                buildFlashcards(instance_id,
                                                    runs[r].instanceResult[1],
                                                    propertyValuesResult, perms)]]
                /\ suspended(r)
        /\ UNCHANGED <<tables, fakeArgs, fakeResult, ui>>

\* the third statement, insert the batch, and the return of the stored rows
insertBatch(r) ==
    LET stored == insertFlashcards(runs[r].flashcardsToInsert)
        insertedFlashcards == SubSeq(stored, Len(flashcards) + 1, Len(stored))
    IN  /\ runs[r].pc = "insert"
        /\ flashcards' = stored
        /\ runs' = [runs EXCEPT ![r] = [@ EXCEPT !.pc = "done",
                                                 !.insertedFlashcards = insertedFlashcards]]
        /\ finished(r, Returned("generateFlashcards",
                                [instance_id |-> runs[r].instance_id],
                                insertedFlashcards))
        /\ UNCHANGED <<dataTypes, properties, instances, propertyValues, answers,
                       fakeArgs, fakeResult, ui>>

NextRuns ==
    \/ \E r \in 1..MaxRuns, instance_id \in IdsFor(instances) :
          selectInstance(r, instance_id)
    \/ \E r \in 1..MaxRuns : selectPropertyValues(r)
    \/ \E r \in 1..MaxRuns : insertBatch(r)
    \/ getFlashcards /\ UNCHANGED calls
    \/ \E instanceId \in IdsFor(instances) :
          getFlashcardsByInstance(instanceId) /\ UNCHANGED calls

SpecRuns == InitRuns /\ [][NextRuns]_vars

-----------------------------------------------------------------------------
(* Generate, then answer: one instance with one property of any type and   *)
(* one stored value; generateFlashcards builds its cards and the player    *)
(* answers a card with one of the answers its view offers.                 *)

RoundValues ==
    {s0, s5, sMinus1, sTrue, sFalse, sTrueCap, sUnknownLc, sParis, sParisPadded}

InitRound ==
    /\ dataTypes = <<[id |-> 1, name |-> sCountry]>>
    /\ \E property_type \in PropertyTypes :
          properties = <<[id |-> 1, type_id |-> 1, name |-> sCapital,
                          property_type |-> property_type]>>
    /\ instances = <<[id |-> 1, type_id |-> 1, name |-> sFrance]>>
    /\ \E value \in RoundValues :
          propertyValues = <<[id |-> 1, instance_id |-> 1, property_id |-> 1,
                              value |-> value]>>
    /\ flashcards = <<>>
    /\ answers = <<>>
    /\ last = NoCall
    /\ calls = 0
    /\ fakeArgs = NoArgs
    /\ fakeResult = NoResult
    /\ runs = NoRuns
    /\ player = NoPlayer
    /\ generator = NoGenerator

\* the answers submitted for a flashcard: the card's own correct answer, and
\* what the player's view of the card offers: an option button of a
\* multiple_choice card, the True or the False button of a true_false card,
\* typed text for a fill_in_blank card
ChoicesOf(flashcard) ==
    {flashcard.correct_answer} \cup
    CASE flashcard.flashcard_type = "multiple_choice" ->
             {flashcard.options.items[i] : i \in DOMAIN flashcard.options.items}
      [] flashcard.flashcard_type = "true_false" -> {sTrue, sFalse}
      [] OTHER -> {sLondon}

RoundCalled == calls < MaxRoundCalls /\ calls' = calls + 1

NextRound ==
    \/ \E instance_id \in IdsFor(instances) :
          RoundCalled /\ generateFlashcards(instance_id)
    \/ \E flashcard_id \in DOMAIN flashcards :
          \E user_answer \in ChoicesOf(flashcards[flashcard_id]) :
              RoundCalled /\ submitAnswer(flashcard_id, user_answer)

SpecRound == InitRound /\ [][NextRound]_vars

-----------------------------------------------------------------------------
(* Handler calls that overlap. Every await of a handler is a step of its   *)
(* own: the look-ups of the parents, then the insert. Between two steps of *)
(* one call any step of another call may run. A call that has thrown or   *)
(* returned leaves its slot to the client's next request.                  *)

\* the slot of run r while its call is suspended at the await before pc
awaiting(r, pc, op, input) ==
    runs' = [runs EXCEPT ![r] = [IdleRun EXCEPT !.pc = pc, !.op = op,
                                                !.input = input]]

\* the slot of run r once its call has thrown or returned: free for the
\* next request
settled(r, op, input) == runs' = [runs EXCEPT ![r] = IdleRun]

\* createDataType has one await, the insert
insertDataType(r, name) ==
    LET input == [name |-> name]
        result == returning(dataTypes, <<input>>)
    IN  /\ runs[r].pc = "idle"
        /\ dataTypes' = dataTypes \o result
        /\ settled(r, "createDataType", input)
        /\ finished(r, Returned("createDataType", input, result))
        /\ UNCHANGED <<properties, instances, propertyValues, flashcards, answers,
                       fakeArgs, fakeResult, ui>>

\* createProperty, first await: the look-up of the data type
selectDataTypeOfProperty(r, type_id, name, property_type) ==
    LET input == [type_id |-> type_id, name |-> name, property_type |-> property_type]
        existingDataType == selectById(dataTypes, type_id)
    IN  /\ runs[r].pc = "idle"
        /\ IF Len(existingDataType) = 0
           THEN /\ settled(r, "createProperty", input)
                /\ finished(r, Threw("createProperty", input,
                                     <<"Data type with ID ", type_id, " does not exist">>))
           ELSE /\ awaiting(r, "insertProperty", "createProperty", input)
                /\ suspended(r)
        /\ UNCHANGED <<tables, fakeArgs, fakeResult, ui>>

\* createProperty, second await: the insert
insertProperty(r) ==
    LET input == runs[r].input
        result == returning(properties, <<input>>)
    IN  /\ runs[r].pc = "insertProperty"
        /\ properties' = properties \o result
        /\ settled(r, "createProperty", input)
        /\ finished(r, Returned("createProperty", input, result))
        /\ UNCHANGED <<dataTypes, instances, propertyValues, flashcards, answers,
                       fakeArgs, fakeResult, ui>>

\* selectDataTypeOfInstance without the look-up: the call goes on to its insert
selectDataTypeOfInstance_noCheck(r, type_id, name) ==
    LET input == [type_id |-> type_id, name |-> name]
    IN  /\ runs[r].pc = "idle"
        /\ awaiting(r, "insertInstance", "createInstance", input)
        /\ suspended(r)
        /\ UNCHANGED <<tables, fakeArgs, fakeResult, ui>>

\* createInstance, first await: the look-up of the data type
selectDataTypeOfInstance(r, type_id, name) ==
    LET input == [type_id |-> type_id, name |-> name]
        dataType == selectById(dataTypes, type_id)
    IN  /\ runs[r].pc = "idle"
        /\ IF Len(dataType) = 0
           THEN /\ settled(r, "createInstance", input)
                /\ finished(r, Threw("createInstance", input,
                                     <<"Data type with id ", type_id, " not found">>))
           ELSE /\ awaiting(r, "insertInstance", "createInstance", input)
                /\ suspended(r)
        /\ UNCHANGED <<tables, fakeArgs, fakeResult, ui>>

\* createInstance, second await: the insert
insertInstance(r) ==
    LET input == runs[r].input
        result == returning(instances, <<input>>)
    IN  /\ runs[r].pc = "insertInstance"
        /\ instances' = instances \o result
        /\ settled(r, "createInstance", input)
        /\ finished(r, Returned("createInstance", input, result))
        /\ UNCHANGED <<dataTypes, properties, propertyValues, flashcards, answers,
                       fakeArgs, fakeResult, ui>>

\* createPropertyValue, first await: the look-up of the instance
selectInstanceExists(r, instance_id, property_id, value) ==
    LET input == [instance_id |-> instance_id, property_id |-> property_id,
                  value |-> value]
        instanceExists == selectById(instances, instance_id)
    IN  /\ runs[r].pc = "idle"
        /\ IF Len(instanceExists) = 0
           THEN /\ settled(r, "createPropertyValue", input)
                /\ finished(r, Threw("createPropertyValue", input,
                                     <<"Instance with id ", instance_id, " does not exist">>))
           ELSE /\ awaiting(r, "selectPropertyExists", "createPropertyValue", input)
                /\ suspended(r)
        /\ UNCHANGED <<tables, fakeArgs, fakeResult, ui>>

\* createPropertyValue, second await: the look-up of the property
selectPropertyExists(r) ==
    LET input == runs[r].input
        propertyExists == selectById(properties, input.property_id)
    IN  /\ runs[r].pc = "selectPropertyExists"
        /\ IF Len(propertyExists) = 0
           THEN /\ settled(r, "createPropertyValue", input)
                /\ finished(r, Threw("createPropertyValue", input,
                                     <<"Property with id ", input.property_id,
                                       " does not exist">>))
           ELSE /\ awaiting(r, "insertPropertyValue", "createPropertyValue", input)
                /\ suspended(r)
        /\ UNCHANGED <<tables, fakeArgs, fakeResult, ui>>

\* createPropertyValue, third await: the insert
insertPropertyValue(r) ==
    LET input == runs[r].input
        result == returning(propertyValues, <<input>>)
    IN  /\ runs[r].pc = "insertPropertyValue"
        /\ propertyValues' = propertyValues \o result
        /\ settled(r, "createPropertyValue", input)
        /\ finished(r, Returned("createPropertyValue", input, result))
        /\ UNCHANGED <<dataTypes, properties, instances, flashcards, answers,
                       fakeArgs, fakeResult, ui>>

\* submitAnswer, first await: the look-up of the flashcard; the verdict is
\* computed from the row it returned before the call suspends again
selectFlashcard(r, flashcard_id, user_answer) ==
    LET input == [flashcard_id |-> flashcard_id, user_answer |-> user_answer]
        found == selectById(flashcards, flashcard_id)
    IN  /\ runs[r].pc = "idle"
        /\ IF Len(found) = 0
           THEN /\ settled(r, "submitAnswer", input)
                /\ finished(r, Threw("submitAnswer", input,
                                     flashcardNotFoundError(flashcard_id)))
           ELSE /\ awaiting(r, "insertAnswer", "submitAnswer",
                            answerValues(flashcard_id, user_answer,
                                         isCorrectFor(found[1], user_answer)))
                /\ suspended(r)
        /\ UNCHANGED <<tables, fakeArgs, fakeResult, ui>>

\* submitAnswer, second await: the insert of the answer
insertAnswerRow(r) ==
    LET values == runs[r].input
        input == [flashcard_id |-> values.flashcard_id,
                  user_answer |-> values.user_answer]
        inserted == insertAnswer(values)
    IN  /\ runs[r].pc = "insertAnswer"
        /\ answers' = inserted
        /\ settled(r, "submitAnswer", input)
        /\ finished(r, Returned("submitAnswer", input, <<inserted[Len(inserted)]>>))
        /\ UNCHANGED <<dataTypes, properties, instances, propertyValues, flashcards,
                       fakeArgs, fakeResult, ui>>

\* the next request takes the slot of a generateFlashcards call that has
\* settled
nextRequest(r) ==
    /\ runs[r].pc = "done"
    /\ runs' = [runs EXCEPT ![r] = IdleRun]
    /\ UNCHANGED <<tables, last, calls, fakeArgs, fakeResult, ui>>

\* the await at which run r resumes
resume(r) ==
    \/ insertProperty(r)
    \/ insertInstance(r)
    \/ selectPropertyExists(r)
    \/ insertPropertyValue(r)
    \/ insertAnswerRow(r)
    \/ selectPropertyValues(r)
    \/ insertBatch(r)

\* the slots are interchangeable: a request takes the first free one
firstIdle(r) == \A q \in 1..(r - 1) : runs[q].pc # "idle"

\* the calls that are suspended at an await
inFlight == {r \in DOMAIN runs : runs[r].pc \notin {"idle", "done"}}

\* a request is taken while the clients have calls left, by the first free slot
begin(r) ==
    /\ calls + Cardinality(inFlight) < MaxInterleaved
    /\ firstIdle(r)

NextInterleave ==
    \/ \E r \in 1..MaxRuns : resume(r)
    \/ \E r \in 1..MaxRuns, name \in DataTypeNames :
          begin(r) /\ insertDataType(r, name)
    \/ \E r \in 1..MaxRuns, type_id \in IdsFor(dataTypes), name \in PropertyNames,
          property_type \in PropertyTypes :
          begin(r) /\ selectDataTypeOfProperty(r, type_id, name, property_type)
    \/ \E r \in 1..MaxRuns, type_id \in IdsFor(dataTypes), name \in InstanceNames :
          begin(r) /\ selectDataTypeOfInstance(r, type_id, name)
    \/ \E r \in 1..MaxRuns, instance_id \in IdsFor(instances),
          property_id \in IdsFor(properties), value \in Values :
          begin(r) /\ selectInstanceExists(r, instance_id, property_id, value)
    \/ \E r \in 1..MaxRuns, instance_id \in IdsFor(instances) :
          begin(r) /\ selectInstance(r, instance_id)
    \/ \E r \in 1..MaxRuns, flashcard_id \in IdsFor(flashcards),
          user_answer \in UserAnswers :
          begin(r) /\ selectFlashcard(r, flashcard_id, user_answer)
    \/ \E r \in 1..MaxRuns : nextRequest(r)

\* one data type with one property, one instance and its value, as the
\* handlers' tests set them up; no flashcard and no answer yet
InitInterleave ==
    /\ dataTypes = <<[id |-> 1, name |-> sCountry]>>
    /\ properties = <<[id |-> 1, type_id |-> 1, name |-> sCapital,
                       property_type |-> "string"]>>
    /\ instances = <<[id |-> 1, type_id |-> 1, name |-> sFrance]>>
    /\ propertyValues = <<[id |-> 1, instance_id |-> 1, property_id |-> 1,
                           value |-> sParis]>>
    /\ flashcards = <<>>
    /\ answers = <<>>
    /\ last = NoCall
    /\ calls = 0
    /\ fakeArgs = NoArgs
    /\ fakeResult = NoResult
    /\ runs = [r \in 1..MaxRuns |-> IdleRun]
    /\ player = NoPlayer
    /\ generator = NoGenerator

SpecInterleave == InitInterleave /\ [][NextInterleave]_vars

-----------------------------------------------------------------------------
(* The client's FlashcardPlayer. Its prop is the list getFlashcards        *)
(* returned, fixed while the component is mounted; its state is gameState  *)
(* and isSubmitting. An event handler runs to its end before the next      *)
(* event; handleSubmitAnswer suspends at its await, and the request it     *)
(* sent is answered or fails in a later step.                              *)

\* useState<GameState>({...})
InitialGameState ==
    [currentIndex |-> 0, userAnswer |-> sEmpty, selectedOption |-> sEmpty,
     showResult |-> FALSE, isCorrect |-> FALSE, score |-> 0, completed |-> 0,
     gameStarted |-> FALSE]

\* what the user may type into the fill-in-blank input
TypedAnswers == {sSpace, sParisPadded, sLondon}

\* the flashcards table after b calls of generateFlashcards for one instance
RECURSIVE repeated(_, _)
repeated(batch, b) == IF b = 0 THEN <<>> ELSE repeated(batch, b - 1) \o batch

\* France with its capital Paris, the cards generated for it, and the
\* component mounted with the list getFlashcards returns
InitPlayer ==
    /\ dataTypes = <<[id |-> 1, name |-> sCountry]>>
    /\ properties = <<[id |-> 1, type_id |-> 1, name |-> sCapital,
                       property_type |-> "string"]>>
    /\ instances = <<[id |-> 1, type_id |-> 1, name |-> sFrance]>>
    /\ propertyValues = <<[id |-> 1, instance_id |-> 1, property_id |-> 1,
                           value |-> sParis]>>
    /\ \E b \in 1..MaxBatches, perm \in ShuffleOutcomes :
          flashcards = withSerialIds(
              repeated(cardsForRow(1, instances[1],
                                   [property_values |-> propertyValues[1],
                                    properties |-> properties[1]], perm), b), 0)
    /\ answers = <<>>
    /\ last = NoCall
    /\ calls = 0
    /\ fakeArgs = NoArgs
    /\ fakeResult = NoResult
    /\ runs = NoRuns
    /\ player = [mounted |-> TRUE,
                 flashcards |-> [i \in DOMAIN flashcards |-> castOptions(flashcards[i])],
                 gameState |-> InitialGameState,
                 isSubmitting |-> FALSE,
                 request |-> <<>>]
    /\ generator = NoGenerator

\* const currentFlashcard = flashcards[gameState.currentIndex], as a list of
\* no element when the index is out of the array
currentFlashcard ==
    IF player.gameState.currentIndex + 1 \in DOMAIN player.flashcards
    THEN <<player.flashcards[player.gameState.currentIndex + 1]>>
    ELSE <<>>

\* which of the component's four returns is rendered, the last one split
\* by showResult into the answer input and the result display
View ==
    IF Len(player.flashcards) = 0 THEN "empty"
    ELSE IF ~player.gameState.gameStarted THEN "ready"
    ELSE IF player.gameState.completed >= Len(player.flashcards) THEN "complete"
    ELSE IF player.gameState.showResult THEN "result"
    ELSE "question"

setGameState(gameState) ==
    /\ player' = [player EXCEPT !.gameState = gameState]
    /\ UNCHANGED <<tables, last, calls, fakeArgs, fakeResult, runs, generator>>

\* the Start Practice Session button
startGame ==
    /\ View = "ready"
    /\ setGameState([player.gameState EXCEPT !.gameStarted = TRUE,
                                             !.currentIndex = 0,
                                             !.score = 0,
                                             !.completed = 0,
                                             !.showResult = FALSE,
                                             !.userAnswer = sEmpty,
                                             !.selectedOption = sEmpty])

\* the Reset button of a question and the Practice Again button
resetGame ==
    /\ View \in {"question", "result", "complete"}
    /\ setGameState(InitialGameState)

\* a click on an option of a multiple-choice card or on True / False
selectOption(option) ==
    /\ View = "question"
    /\ LET card == currentFlashcard[1]
       IN  \/ /\ card.flashcard_type = "multiple_choice"
              /\ card.options.tag = "array"
              /\ \E i \in DOMAIN card.options.items : option = card.options.items[i]
           \/ /\ card.flashcard_type = "true_false"
              /\ option \in {sTrue, sFalse}
    /\ setGameState([player.gameState EXCEPT !.selectedOption = option])

\* onChange of the fill-in-blank input
changeAnswer(value) ==
    /\ View = "question"
    /\ currentFlashcard[1].flashcard_type = "fill_in_blank"
    /\ setGameState([player.gameState EXCEPT !.userAnswer = value])

\* handleSubmitAnswer up to its await
handleSubmitAnswer ==
    LET userAnswer ==
            IF currentFlashcard[1].flashcard_type = "multiple_choice"
            THEN player.gameState.selectedOption
            ELSE IF currentFlashcard[1].flashcard_type = "true_false"
            THEN player.gameState.selectedOption
            ELSE trim(player.gameState.userAnswer)
    IN  /\ IF currentFlashcard = <<>> THEN UNCHANGED player
           ELSE IF userAnswer = sEmpty THEN UNCHANGED player
           ELSE player' = [player EXCEPT
                              !.isSubmitting = TRUE,
                              !.request = <<[flashcard_id |-> currentFlashcard[1].id,
                                             user_answer |-> userAnswer]>>]
        /\ UNCHANGED <<tables, last, calls, fakeArgs, fakeResult, runs, generator>>

\* the Submit Answer button, enabled
clickSubmit ==
    /\ View = "question"
    /\ ~player.isSubmitting
    /\ ~(/\ currentFlashcard[1].flashcard_type = "fill_in_blank"
         /\ trim(player.gameState.userAnswer) = sEmpty)
    /\ ~(/\ currentFlashcard[1].flashcard_type \in {"multiple_choice", "true_false"}
         /\ player.gameState.selectedOption = sEmpty)
    /\ handleSubmitAnswer

\* handleKeyPress submitting also while the result is shown
handleKeyPress_whileResultShown ==
    IF ~player.isSubmitting
    THEN handleSubmitAnswer
    ELSE UNCHANGED vars

\* the document's keypress listener, for the Enter key
handleKeyPress ==
    IF ~player.gameState.showResult /\ ~player.isSubmitting
    THEN handleSubmitAnswer
    ELSE UNCHANGED vars

\* the Next Question / View Results button
handleNext ==
    /\ View = "result"
    /\ IF player.gameState.currentIndex < Len(player.flashcards) - 1
       THEN setGameState([player.gameState EXCEPT !.currentIndex = @ + 1,
                                                  !.userAnswer = sEmpty,
                                                  !.selectedOption = sEmpty,
                                                  !.showResult = FALSE])
       ELSE UNCHANGED vars

\* the server's submitAnswer handles the request and the awaited call
\* resolves: the rest of the try block, then finally
submitResolved ==
    /\ player.request # <<>>
    /\ LET input == player.request[1]
           found == selectById(flashcards, input.flashcard_id)
           isCorrect == isCorrectFor(found[1], input.user_answer)
           inserted == insertAnswer(answerValues(input.flashcard_id,
                                                 input.user_answer, isCorrect))
           result == inserted[Len(inserted)]
       IN  /\ Len(found) # 0
           /\ answers' = inserted
           /\ last' = Returned("submitAnswer", input, <<result>>)
           /\ player' = [player EXCEPT
                  !.gameState = [@ EXCEPT
                      !.showResult = TRUE,
                      !.isCorrect = result.is_correct,
                      !.score = IF result.is_correct THEN @ + 1 ELSE @,
                      !.completed = @ + 1],
                  !.isSubmitting = FALSE,
                  !.request = <<>>]
    /\ UNCHANGED <<dataTypes, properties, instances, propertyValues, flashcards,
                   calls, fakeArgs, fakeResult, runs, generator>>

\* the request fails before it reaches the handler: catch, then finally
submitRejected ==
    /\ player.request # <<>>
    /\ player' = [player EXCEPT !.isSubmitting = FALSE, !.request = <<>>]
    /\ UNCHANGED <<tables, last, calls, fakeArgs, fakeResult, runs, generator>>

NextPlayer ==
    \/ startGame
    \/ resetGame
    \/ \E option \in {sTrue, sFalse} \cup
                    UNION {{c.options.items[i] : i \in DOMAIN c.options.items} :
                           c \in {player.flashcards[k] : k \in DOMAIN player.flashcards}} :
          selectOption(option)
    \/ \E value \in TypedAnswers : changeAnswer(value)
    \/ Len(answers) < MaxAnswers /\ clickSubmit
    \/ Len(answers) < MaxAnswers /\ handleKeyPress
    \/ handleNext
    \/ submitResolved
    \/ submitRejected

SpecPlayer == InitPlayer /\ [][NextPlayer]_vars

-----------------------------------------------------------------------------
(* The client's FlashcardGenerator. Its props are the lists getDataTypes    *)
(* and getInstances returned; its state is selectedTypeId,                 *)
(* selectedInstanceId, isGenerating and generatedCount. An event handler   *)
(* reads the state and the props of the render it was created in. The      *)
(* fields queue and totalGenerated are the for loop of a suspended         *)
(* handler; clicked, issued, failed and clicks record what was clicked and *)
(* which generateFlashcards requests were sent since.                      *)

sCity == <<"C", "i", "t", "y">>

\* the ids of the rows of a list, in its order
idsIn(rows) == [i \in DOMAIN rows |-> rows[i].id]

\* two data types with a property each, and instances of either type with
\* or without a value; the component mounted with what loadData fetched
InitGenerator ==
    /\ dataTypes = <<[id |-> 1, name |-> sCountry], [id |-> 2, name |-> sCity]>>
    /\ properties = <<[id |-> 1, type_id |-> 1, name |-> sCapital,
                       property_type |-> "string"],
                      [id |-> 2, type_id |-> 2, name |-> sPopulation,
                       property_type |-> "number"]>>
    /\ \E n \in 1..MaxInstances :
          \E typeOf \in [1..n -> {1, 2}], valued \in SUBSET (1..n) :
              /\ instances = [i \in 1..n |->
                                 [id |-> i, type_id |-> typeOf[i], name |-> sFrance]]
              /\ propertyValues =
                    withSerialIds(
                        SelectSeq([i \in 1..n |->
                                      [instance_id |-> i, property_id |-> typeOf[i],
                                       value |-> IF typeOf[i] = 1 THEN sParis ELSE s5]],
                                  LAMBDA row : row.instance_id \in valued), 0)
    /\ flashcards = <<>>
    /\ answers = <<>>
    /\ last = NoCall
    /\ calls = 0
    /\ fakeArgs = NoArgs
    /\ fakeResult = NoResult
    /\ runs = NoRuns
    /\ player = NoPlayer
    /\ generator = [mounted |-> TRUE,
                    dataTypes |-> [i \in DOMAIN dataTypes |-> withProperties(dataTypes[i])],
                    instances |-> [i \in DOMAIN instances |-> withValues(instances[i])],
                    selectedTypeId |-> 0,
                    selectedInstanceId |-> 0,
                    isGenerating |-> FALSE,
                    generatedCount |-> <<>>,
                    queue |-> <<>>,
                    totalGenerated |-> 0,
                    clicked |-> 0,
                    issued |-> <<>>,
                    failed |-> FALSE,
                    clicks |-> 0]

\* instances.filter(instance => instance.type_id === type.id &&
\*                              instance.property_values.length > 0)
typeInstances(type_id) ==
    SelectSeq(generator.instances,
              LAMBDA instance : /\ instance.type_id = type_id
                                /\ Len(instance.property_values) > 0)

\* const availableInstances = instances.filter(...selectedTypeId...)
availableInstances ==
    SelectSeq(generator.instances,
              LAMBDA instance : /\ instance.type_id = generator.selectedTypeId
                                /\ Len(instance.property_values) > 0)

\* const selectedType = dataTypes.find(type => type.id === selectedTypeId)
selectedType ==
    SelectSeq(generator.dataTypes, LAMBDA type : type.id = generator.selectedTypeId)

\* the state of the component changes, the server's does not
rendered(state) ==
    /\ generator' = state
    /\ UNCHANGED <<tables, last, calls, fakeArgs, fakeResult, runs, player>>

\* onValueChange of the data type Select
selectTypeOption(type_id) ==
    /\ \E i \in DOMAIN generator.dataTypes : generator.dataTypes[i].id = type_id
    /\ rendered([generator EXCEPT !.selectedTypeId = type_id,
                                  !.selectedInstanceId = 0,
                                  !.generatedCount = <<>>])

\* onValueChange of the instance Select
selectInstanceOption(instance_id) ==
    /\ selectedType # <<>>
    /\ \E i \in DOMAIN availableInstances : availableInstances[i].id = instance_id
    /\ rendered([generator EXCEPT !.selectedInstanceId = instance_id])

\* handleGenerateForType, as created in the current render, up to its first
\* await: the state it leaves, given the state the click has set so far
handleGenerateForType(state) ==
    IF generator.selectedTypeId = 0
    THEN state
    ELSE IF availableInstances = <<>>
    THEN [state EXCEPT !.isGenerating = FALSE, !.generatedCount = <<0>>,
                       !.queue = <<>>, !.totalGenerated = 0]
    ELSE [state EXCEPT !.isGenerating = TRUE, !.generatedCount = <<>>,
                       !.queue = idsIn(availableInstances), !.totalGenerated = 0]

\* handleGenerateForInstance up to its first await
handleGenerateForInstance(instanceId) ==
    [generator EXCEPT !.isGenerating = TRUE, !.generatedCount = <<>>,
                      !.queue = <<instanceId>>, !.totalGenerated = 0,
                      !.clicked = 0, !.issued = <<>>, !.failed = FALSE,
                      !.clicks = @ + 1]

\* the Generate All button of a data type's Quick Generate row
clickGenerateAll(type_id) ==
    /\ \E i \in DOMAIN generator.dataTypes : generator.dataTypes[i].id = type_id
    /\ typeInstances(type_id) # <<>>
    /\ ~generator.isGenerating
    /\ rendered(handleGenerateForType(
           [generator EXCEPT !.selectedTypeId = type_id,
                             !.clicked = type_id, !.issued = <<>>,
                             !.failed = FALSE, !.clicks = @ + 1]))

\* the Generate for All Instances button of the selected type
clickGenerateForAll ==
    /\ selectedType # <<>>
    /\ ~generator.isGenerating
    /\ availableInstances # <<>>
    /\ rendered(handleGenerateForType(
           [generator EXCEPT !.clicked = 0, !.issued = <<>>,
                             !.failed = FALSE, !.clicks = @ + 1]))

\* the Generate button of an available instance
clickGenerate(instance_id) ==
    /\ selectedType # <<>>
    /\ \E i \in DOMAIN availableInstances : availableInstances[i].id = instance_id
    /\ ~generator.isGenerating
    /\ rendered(handleGenerateForInstance(instance_id))

\* the Generate for Selected button: handleGenerateForSpecificInstance
clickGenerateForSelected ==
    /\ selectedType # <<>>
    /\ ~generator.isGenerating
    /\ generator.selectedInstanceId # 0
    /\ rendered(handleGenerateForInstance(generator.selectedInstanceId))

\* the state when the loop goes on or, after the last instance, the handler
\* returns
afterRequest(instance_id, count) ==
    IF Tail(generator.queue) = <<>>
    THEN [generator EXCEPT !.queue = <<>>,
                           !.issued = Append(@, instance_id),
                           !.totalGenerated = @ + count,
                           !.generatedCount = <<generator.totalGenerated + count>>,
                           !.isGenerating = FALSE]
    ELSE [generator EXCEPT !.queue = Tail(@),
                           !.issued = Append(@, instance_id),
                           !.totalGenerated = @ + count]

\* one round of the suspended handler: the server's generateFlashcards and
\* getFlashcardsByInstance answer the requests for the next instance
requestsResolved ==
    /\ generator.isGenerating
    /\ generator.queue # <<>>
    /\ LET instance_id == Head(generator.queue)
           instanceResult == selectById(instances, instance_id)
           propertyValuesResult == joinProperties(propertyValues, instance_id)
       IN  /\ Len(instanceResult) # 0
           /\ ~noPropertyValues(propertyValuesResult)
           /\ \E perms \in [DOMAIN propertyValuesResult -> ShuffleOutcomes] :
                 LET stored == insertFlashcards(
                                   buildFlashcards(instance_id, instanceResult[1],
                                                   propertyValuesResult, perms))
                     results == SelectSeq(stored,
                                    LAMBDA row : row.instance_id = instance_id)
                 IN  /\ flashcards' = stored
                     /\ last' = Returned("getFlashcardsByInstance",
                                         [instanceId |-> instance_id],
                                         [i \in DOMAIN results |->
                                             castOptions(results[i])])
                     /\ generator' = afterRequest(instance_id, Len(results))
    /\ UNCHANGED <<dataTypes, properties, instances, propertyValues, answers,
                   calls, fakeArgs, fakeResult, runs, player>>

\* a request of the suspended handler fails: catch, then finally
requestRejected ==
    /\ generator.isGenerating
    /\ generator.queue # <<>>
    /\ rendered([generator EXCEPT !.queue = <<>>, !.isGenerating = FALSE,
                                  !.failed = TRUE])

NextGenerator ==
    \/ \E type_id \in DOMAIN dataTypes : selectTypeOption(type_id)
    \/ \E instance_id \in DOMAIN instances : selectInstanceOption(instance_id)
    \/ \E type_id \in DOMAIN dataTypes :
          generator.clicks < MaxClicks /\ clickGenerateAll(type_id)
    \/ generator.clicks < MaxClicks /\ clickGenerateForAll
    \/ \E instance_id \in DOMAIN instances :
          generator.clicks < MaxClicks /\ clickGenerate(instance_id)
    \/ generator.clicks < MaxClicks /\ clickGenerateForSelected
    \/ requestsResolved
    \/ requestRejected

SpecGenerator == InitGenerator /\ [][NextGenerator]_vars

-----------------------------------------------------------------------------
(* Vocabulary of the claims *)

\* s without its leading and trailing white space
Core(s) ==
    LET inked == {i \in 1..Len(s) : s[i] \notin WhiteSpace}
    IN  IF inked = {} THEN <<>>
        ELSE SubSeq(s, CHOOSE i \in inked : \A j \in inked : i <= j,
                       CHOOSE i \in inked : \A j \in inked : i >= j)

SameLetter(c, d) ==
    c = d \/ \E k \in DOMAIN UpperChars : {c, d} = {UpperChars[k], LowerChars[k]}

\* a and b are equal up to surrounding white space and the case of letters
Matches(a, b) ==
    LET x == Core(a)
        y == Core(b)
    IN  Len(x) = Len(y) /\ \A i \in 1..Len(x) : SameLetter(x[i], y[i])

TrueWords == {sTrue, sT, sYes, sY, s1}
FalseWords == {sFalse, sF, sNo, sN, s0}
InWords(a, words) == \E w \in words : Matches(a, w)

IdsOf(table) == {table[i].id : i \in DOMAIN table}
NumValuesOf(instance_id) ==
    Cardinality({i \in DOMAIN propertyValues :
                    propertyValues[i].instance_id = instance_id})
CountOfType(cards, t) ==
    Cardinality({i \in DOMAIN cards : cards[i].flashcard_type = t})

Generated == last.op = "generateFlashcards" /\ last.ok
Answered == last.op = "submitAnswer" /\ last.ok
\* the flashcard the last submitAnswer call graded, and what it stored
GradedCard == flashcards[last.input.flashcard_id]
GradedAnswer == last.result[1]

-----------------------------------------------------------------------------
(* C1: for every correct answer and property type, generateFakeOptions     *)
(* returns exactly 3 strings and none of them equals the correct answer.   *)
(* Fails: for the number "0" the third fake, 0 * 2, is "0" again.          *)
C1_ThreeFakesNoneCorrect ==
    fakeResult.done =>
        /\ Len(fakeResult.value) = 3
        /\ \A i \in DOMAIN fakeResult.value :
              fakeResult.value[i] # fakeArgs.correctAnswer

(* C2: every multiple_choice flashcard has an options list of exactly 4    *)
(* pairwise distinct entries containing correct_answer exactly once.       *)
(* Fails: the options of a number property with value "0".                 *)
C2_FourDistinctOptions ==
    \A c \in DOMAIN flashcards :
        flashcards[c].flashcard_type = "multiple_choice" =>
            LET options == flashcards[c].options
            IN  /\ options.tag = "array"
                /\ Len(options.items) = 4
                /\ \A i, j \in DOMAIN options.items :
                      i # j => options.items[i] # options.items[j]
                /\ Cardinality({i \in DOMAIN options.items :
                                   options.items[i] = flashcards[c].correct_answer}) = 1

(* C3: a successful generateFlashcards call on an instance with N >= 1     *)
(* property values returns and stores exactly 3N flashcards, N of each     *)
(* type, all with the requested instance_id.                               *)
C3_Step ==
    (calls' # calls /\ last'.op = "generateFlashcards" /\ last'.ok) =>
        LET id == last'.input.instance_id
            N == NumValuesOf(id)
            result == last'.result
        IN  /\ N >= 1
            /\ Len(result) = 3 * N
            /\ \A t \in FlashcardTypes : CountOfType(result, t) = N
            /\ \A i \in DOMAIN result : result[i].instance_id = id
            /\ flashcards' = flashcards \o result
            /\ Len(flashcards') = Len(flashcards) + 3 * N

C3_Returns3NCards == [][C3_Step]_vars

C3_Witness ==
    /\ Generated
    /\ NumValuesOf(last.input.instance_id) = 2
    /\ Len(last.result) = 6
    /\ \E i \in DOMAIN instances : instances[i].id # last.input.instance_id

(* C4: for a true_false flashcard, is_correct = (U in T and C in T) or     *)
(* (U in F and C not in T), U and C the trimmed lower-cased user answer    *)
(* and correct answer, also for a correct answer in neither vocabulary.    *)
C4_TrueFalseVerdict ==
    (Answered /\ GradedCard.flashcard_type = "true_false") =>
        LET U == last.input.user_answer
            C == GradedCard.correct_answer
        IN  GradedAnswer.is_correct =
                (\/ InWords(U, TrueWords) /\ InWords(C, TrueWords)
                 \/ InWords(U, FalseWords) /\ ~InWords(C, TrueWords))

C4_Witness ==
    /\ Answered
    /\ GradedCard.flashcard_type = "true_false"
    /\ ~InWords(GradedCard.correct_answer, TrueWords)
    /\ ~InWords(GradedCard.correct_answer, FalseWords)
    /\ InWords(last.input.user_answer, FalseWords)
    /\ GradedAnswer.is_correct

(* C5 as stated: for a true_false flashcard, a user answer in neither      *)
(* vocabulary gets the verdict that the answer "false" would get, for      *)
(* every correct answer.                                                   *)
C5_UnrecognizedGradedAsFalse ==
    (/\ Answered
     /\ GradedCard.flashcard_type = "true_false"
     /\ ~InWords(last.input.user_answer, TrueWords)
     /\ ~InWords(last.input.user_answer, FalseWords)) =>
        GradedAnswer.is_correct = isCorrectFor(GradedCard, sFalse)

(* C5 as amended: for a true_false flashcard, a user answer in neither     *)
(* vocabulary is graded incorrect for every correct answer; that is the    *)
(* verdict of the answer "false" exactly when the correct answer is in the *)
(* true-vocabulary.                                                        *)
C5_UnrecognizedGradedIncorrect ==
    (/\ Answered
     /\ GradedCard.flashcard_type = "true_false"
     /\ ~InWords(last.input.user_answer, TrueWords)
     /\ ~InWords(last.input.user_answer, FalseWords)) =>
        /\ GradedAnswer.is_correct = FALSE
        /\ (GradedAnswer.is_correct = isCorrectFor(GradedCard, sFalse))
               <=> InWords(GradedCard.correct_answer, TrueWords)

C5_Witness ==
    /\ Answered
    /\ GradedCard.flashcard_type = "true_false"
    /\ ~InWords(last.input.user_answer, TrueWords)
    /\ ~InWords(last.input.user_answer, FalseWords)
    /\ last.input.user_answer # <<>>
    /\ InWords(GradedCard.correct_answer, FalseWords)
    /\ ~GradedAnswer.is_correct

(* C6: for a multiple_choice or fill_in_blank flashcard, is_correct is     *)
(* true iff user answer and correct answer are equal after trimming        *)
(* leading and trailing white space and lower-casing both.                 *)
C6_TextVerdict ==
    (Answered /\ GradedCard.flashcard_type \in {"multiple_choice", "fill_in_blank"}) =>
        (GradedAnswer.is_correct
            <=> Matches(last.input.user_answer, GradedCard.correct_answer))

C6_Witness ==
    /\ Answered
    /\ GradedCard.flashcard_type = "fill_in_blank"
    /\ GradedAnswer.is_correct
    /\ last.input.user_answer # GradedCard.correct_answer
    /\ trim(last.input.user_answer) # last.input.user_answer
    /\ Len(GradedCard.correct_answer) > 0

(* C7: generateFlashcards on an existing instance with zero property       *)
(* values fails with the no-property-values error; it returns no list and  *)
(* stores no flashcard.                                                    *)
C7_Step ==
    (/\ calls' # calls
     /\ last'.op = "generateFlashcards"
     /\ last'.input.instance_id \in IdsOf(instances)
     /\ NumValuesOf(last'.input.instance_id) = 0) =>
        /\ ~last'.ok
        /\ last'.error = <<"No property values found for instance ",
                           last'.input.instance_id>>
        /\ last'.result = <<>>
        /\ flashcards' = flashcards

C7_NoValuesFails == [][C7_Step]_vars

C7_Witness ==
    /\ last.op = "generateFlashcards"
    /\ ~last.ok
    /\ last.input.instance_id \in IdsOf(instances)
    /\ NumValuesOf(last.input.instance_id) = 0
    /\ propertyValues # <<>>

(* C8: generateFlashcards with an instance id that is not stored, and      *)
(* submitAnswer with a flashcard id that is not stored, fail with a        *)
(* not-found error naming the id and leave the flashcards and answers      *)
(* tables unchanged.                                                       *)
C8_Step ==
    calls' # calls =>
        /\ (/\ last'.op = "generateFlashcards"
            /\ last'.input.instance_id \notin IdsOf(instances)) =>
               /\ ~last'.ok
               /\ last'.error = <<"Instance with id ", last'.input.instance_id,
                                  " not found">>
               /\ flashcards' = flashcards
               /\ answers' = answers
        /\ (/\ last'.op = "submitAnswer"
            /\ last'.input.flashcard_id \notin IdsOf(flashcards)) =>
               /\ ~last'.ok
               /\ last'.error = <<"Flashcard with id ", last'.input.flashcard_id,
                                  " not found">>
               /\ flashcards' = flashcards
               /\ answers' = answers

C8_NotFoundFails == [][C8_Step]_vars

C8_Witness ==
    /\ last.op = "generateFlashcards"
    /\ ~last.ok
    /\ last.input.instance_id \notin IdsOf(instances)
    /\ flashcards # <<>>
    /\ answers # <<>>

(* C9: the answer record stored and returned by submitAnswer carries the   *)
(* user answer exactly as submitted, whatever the verdict.                 *)
C9_AnswerStoredVerbatim ==
    Answered =>
        /\ GradedAnswer.user_answer = last.input.user_answer
        /\ answers[Len(answers)].user_answer = last.input.user_answer
        /\ answers[Len(answers)] = GradedAnswer

C9_Witness ==
    /\ Answered
    /\ trim(last.input.user_answer) # last.input.user_answer
    /\ toLowerCase(last.input.user_answer) # last.input.user_answer
    /\ GradedAnswer.is_correct
    /\ GradedAnswer.user_answer = last.input.user_answer

(* C10: every successful submitAnswer adds exactly one answer record with  *)
(* a fresh id and leaves every earlier answer record unchanged; k          *)
(* submissions for one flashcard give k records.                           *)
C10_Step ==
    (calls' # calls /\ last'.op = "submitAnswer" /\ last'.ok) =>
        /\ Len(answers') = Len(answers) + 1
        /\ \A i \in DOMAIN answers : answers'[i] = answers[i]
        /\ answers'[Len(answers')].id \notin IdsOf(answers)
        /\ last'.result = <<answers'[Len(answers')]>>
        /\ Cardinality({i \in DOMAIN answers' :
                           answers'[i].flashcard_id = last'.input.flashcard_id})
             = Cardinality({i \in DOMAIN answers :
                               answers[i].flashcard_id = last'.input.flashcard_id}) + 1

C10_OneNewAnswer == [][C10_Step]_vars

C10_Witness ==
    /\ Answered
    /\ Len(answers) = 2
    /\ answers[1].flashcard_id = answers[2].flashcard_id
    /\ answers[1].id # answers[2].id

\* the properties for which the instance has at least one stored value
PropertiesOf(instance_id) ==
    {propertyValues[i].property_id :
        i \in {j \in DOMAIN propertyValues :
                  propertyValues[j].instance_id = instance_id}}

(* C11: in one generation run every (instance, property) pair that has a   *)
(* stored value gets exactly one flashcard of each of the three types,     *)
(* also when the pair was given a value more than once.                    *)
(* Fails: createPropertyValue stores a second row for the same pair and    *)
(* the run then builds three cards per row, two of each type for the pair. *)
C11_OneCardPerPairAndType ==
    Generated =>
        \A p \in PropertiesOf(last.input.instance_id) :
            \A t \in FlashcardTypes :
                Cardinality({i \in DOMAIN last.result :
                                /\ last.result[i].property_id = p
                                /\ last.result[i].flashcard_type = t}) = 1

(* C12: a stored flashcard is never changed or removed: every handler call *)
(* (a create, submitAnswer, a later generateFlashcards, a read) leaves     *)
(* each stored flashcard where it was with all its fields, and             *)
(* submitAnswer and the reads leave the whole flashcards table unchanged.  *)
C12_Step ==
    /\ Len(flashcards') >= Len(flashcards)
    /\ \A i \in DOMAIN flashcards : flashcards'[i] = flashcards[i]
    /\ (calls' # calls /\ last'.op # "generateFlashcards") => flashcards' = flashcards

C12_StoredCardsNeverChange == [][C12_Step]_vars

C12_Witness ==
    /\ Generated
    /\ Len(last.result) = 3
    /\ Len(flashcards) = 6
    /\ \A i \in 1..3 : flashcards[i].instance_id = last.input.instance_id

\* the rows of a table or of a read result that run r inserted
RowsOf(rows, r) ==
    {i \in DOMAIN rows :
        \E k \in DOMAIN runs[r].insertedFlashcards :
            rows[i] = runs[r].insertedFlashcards[k]}
\* the number of flashcards of the batch run r built
BatchSize(r) == 3 * Len(runs[r].propertyValuesResult)
ReadFlashcards == last.op \in {"getFlashcards", "getFlashcardsByInstance"}

(* C13: the flashcards of one generation run are stored all or nothing.    *)
(* Whatever the interleaving of the runs with each other and with the      *)
(* reads getFlashcards and getFlashcardsByInstance, the flashcards table   *)
(* holds of every run either none of its cards or all 3N of them, and      *)
(* nothing else; and so does every result a read returned.                 *)
C13_BatchAllOrNothing ==
    /\ \A r \in DOMAIN runs :
          /\ Cardinality(RowsOf(flashcards, r)) \in {0, BatchSize(r)}
          /\ Len(runs[r].flashcardsToInsert) = BatchSize(r)
          /\ runs[r].pc = "done" /\ runs[r].flashcardsToInsert # <<>> =>
                 Cardinality(RowsOf(flashcards, r)) = BatchSize(r)
          /\ runs[r].pc # "done" => RowsOf(flashcards, r) = {}
    /\ \A i \in DOMAIN flashcards : \E r \in DOMAIN runs : i \in RowsOf(flashcards, r)
    /\ ReadFlashcards =>
          \A r \in DOMAIN runs :
              Cardinality(RowsOf(last.result, r)) \in {0, BatchSize(r)}

C13_Witness ==
    /\ last.op = "getFlashcards"
    /\ Len(last.result) = 6
    /\ \E r, q \in DOMAIN runs :
          /\ runs[r].pc = "done"
          /\ Cardinality(RowsOf(last.result, r)) = 6
          /\ runs[q].pc = "insert"
          /\ runs[q].instance_id = runs[r].instance_id
          /\ Len(runs[q].flashcardsToInsert) = 6

\* the property values stored for an instance, in the order of the table
ValuesOf(instance_id) ==
    SelectSeq(propertyValues, LAMBDA row : row.instance_id = instance_id)
TypeOrder == <<"true_false", "multiple_choice", "fill_in_blank">>

(* C14: in the batch of a generation run the three cards of the k-th       *)
(* property value read are the cards 3k-2, 3k-1 and 3k, in the order       *)
(* true_false, multiple_choice, fill_in_blank.                             *)
C14_BatchOrder ==
    Generated =>
        LET values == ValuesOf(last.input.instance_id)
        IN  /\ Len(last.result) = 3 * Len(values)
            /\ \A k \in DOMAIN values : \A j \in 1..3 :
                  LET card == last.result[3 * (k - 1) + j]
                  IN  /\ card.flashcard_type = TypeOrder[j]
                      /\ card.property_id = values[k].property_id
                      /\ j # 1 => card.correct_answer = values[k].value

C14_Witness ==
    /\ Generated
    /\ Len(last.result) = 6
    /\ last.result[1].property_id = 2
    /\ last.result[4].property_id = 1
    /\ last.result[3].correct_answer # last.result[6].correct_answer

(* C15: every true_false flashcard generateFlashcards produces has the     *)
(* correct answer "true", whatever the type of the property and the value  *)
(* stored for it, a boolean property with the value "false" included.      *)
C15_TrueFalseAnswerIsTrue ==
    /\ Generated =>
          \A i \in DOMAIN last.result :
              last.result[i].flashcard_type = "true_false" =>
                  last.result[i].correct_answer = <<"t", "r", "u", "e">>
    /\ \A c \in DOMAIN flashcards :
          flashcards[c].flashcard_type = "true_false" =>
              flashcards[c].correct_answer = <<"t", "r", "u", "e">>

C15_Witness ==
    /\ Generated
    /\ \E k \in DOMAIN ValuesOf(last.input.instance_id) :
          LET value == ValuesOf(last.input.instance_id)[k]
              card == last.result[3 * (k - 1) + 1]
          IN  /\ properties[value.property_id].property_type = "boolean"
              /\ value.value = <<"f", "a", "l", "s", "e">>
              /\ card.flashcard_type = "true_false"
              /\ card.property_id = value.property_id

(* C16: a flashcard generateFlashcards produces has options null when its  *)
(* type is true_false or fill_in_blank, and a list when its type is        *)
(* multiple_choice.                                                        *)
C16_OptionsByType ==
    Generated =>
        \A i \in DOMAIN last.result :
            LET card == last.result[i]
            IN  /\ card.flashcard_type \in {"true_false", "fill_in_blank"} =>
                       card.options = [tag |-> "null", items |-> <<>>]
                /\ card.flashcard_type = "multiple_choice" =>
                       /\ card.options.tag = "array"
                       /\ card.options.items # <<>>
                /\ flashcards[card.id] = card

C16_Witness ==
    /\ Generated
    /\ \A t \in FlashcardTypes : CountOfType(last.result, t) = 2
    /\ \E i \in DOMAIN last.result : last.result[i].options.tag = "array"
    /\ \E i \in DOMAIN last.result : last.result[i].options.tag = "null"

FakesFor(propertyType) == fakeResult.done /\ fakeArgs.propertyType = propertyType
\* the decimal numeral of an integer
RECURSIVE Numeral(_)
Numeral(n) ==
    IF n < 0 THEN <<"-">> \o Numeral(-n)
    ELSE IF n < 10 THEN <<Digits[n + 1]>>
    ELSE Numeral(n \div 10) \o <<Digits[(n % 10) + 1]>>

(* C17: for a number property the fakes are the numerals of v + 1, v - 1   *)
(* and v * 2 when the correct answer parses to the number v (an infinite   *)
(* v gives itself three times), and "42", "0", "100" when it does not      *)
(* parse.                                                                  *)
C17_NumberFakes ==
    FakesFor("number") =>
        LET v == parseFloat(fakeArgs.correctAnswer)
        IN  CASE v.kind = "fin" ->
                   fakeResult.value =
                       <<Numeral(v.v + 1), Numeral(v.v - 1), Numeral(v.v * 2)>>
              [] v.kind = "inf" ->
                   LET infinity == IF v.v < 0 THEN <<"-">> \o sInfinity ELSE sInfinity
                   IN  fakeResult.value = <<infinity, infinity, infinity>>
              [] OTHER ->
                   fakeResult.value = <<<<"4", "2">>, <<"0">>, <<"1", "0", "0">>>>

C17_Witness ==
    /\ FakesFor("number")
    /\ fakeArgs.correctAnswer = <<"-", "1">>
    /\ fakeResult.value = <<<<"0">>, <<"-", "2">>, <<"-", "2">>>>

(* C18: for a boolean property the fakes are the negation of the correct   *)
(* answer, "maybe" and "unknown": the first fake is "false" whenever the   *)
(* correct answer denotes true and "true" whenever it denotes false, in    *)
(* whatever spelling.                                                      *)
(* Fails: the correct answer "True" denotes true and its first fake is     *)
(* "true"; only the exact string "true" is negated to "false".             *)
C18_BooleanFakesNegate ==
    FakesFor("boolean") =>
        /\ Len(fakeResult.value) = 3
        /\ fakeResult.value[2] = <<"m", "a", "y", "b", "e">>
        /\ fakeResult.value[3] = <<"u", "n", "k", "n", "o", "w", "n">>
        /\ InWords(fakeArgs.correctAnswer, TrueWords) =>
               fakeResult.value[1] = <<"f", "a", "l", "s", "e">>
        /\ InWords(fakeArgs.correctAnswer, FalseWords) =>
               fakeResult.value[1] = <<"t", "r", "u", "e">>

\* the decoy pool of the string fakes
DecoyPool ==
    << <<"U", "n", "k", "n", "o", "w", "n">>,
       <<"N", "o", "t", " ", "A", "v", "a", "i", "l", "a", "b", "l", "e">>,
       <<"P", "l", "a", "c", "e", "h", "o", "l", "d", "e", "r">>,
       <<"D", "e", "f", "a", "u", "l", "t", " ", "V", "a", "l", "u", "e">>,
       <<"S", "a", "m", "p", "l", "e", " ", "T", "e", "x", "t">>,
       <<"T", "e", "s", "t", " ", "D", "a", "t", "a">> >>

(* C19: for a string property the fakes are the first 3 entries, in pool   *)
(* order, of the decoy pool without the entries equal to the correct       *)
(* answer.                                                                 *)
C19_StringFakes ==
    FakesFor("string") =>
        LET remaining == SelectSeq(DecoyPool, LAMBDA d : d # fakeArgs.correctAnswer)
        IN  fakeResult.value = SubSeq(remaining, 1, 3)

C19_Witness ==
    /\ FakesFor("string")
    /\ fakeArgs.correctAnswer = DecoyPool[2]
    /\ fakeResult.value = <<DecoyPool[1], DecoyPool[3], DecoyPool[4]>>

\* the stored answers i and j are the same answer to the same flashcard
SameSubmission(i, j) ==
    /\ answers[i].flashcard_id = answers[j].flashcard_id
    /\ answers[i].user_answer = answers[j].user_answer

(* C20: grading is deterministic: two submitAnswer calls with the same     *)
(* flashcard id and the same user answer get the same is_correct,          *)
(* whatever was submitted before or between them.                          *)
C20_SameVerdict ==
    \A i, j \in DOMAIN answers :
        SameSubmission(i, j) => answers[i].is_correct = answers[j].is_correct

C20_Witness ==
    /\ Answered
    /\ Len(answers) = 3
    /\ SameSubmission(1, 3)
    /\ ~SameSubmission(1, 2)
    /\ answers[1].is_correct
    /\ ~answers[2].is_correct
    /\ answers[3].is_correct

\* the last call named a parent row that is not stored
MissingParent ==
    \/ /\ last'.op \in {"createProperty", "createInstance"}
       /\ last'.input.type_id \notin IdsOf(dataTypes)
    \/ /\ last'.op = "createPropertyValue"
       /\ \/ last'.input.instance_id \notin IdsOf(instances)
          \/ last'.input.property_id \notin IdsOf(properties)

(* C21: createProperty and createInstance with an unknown data type id,    *)
(* and createPropertyValue with an unknown instance id or an unknown       *)
(* property id, throw and leave every table unchanged.                     *)
C21_Step ==
    (calls' # calls /\ MissingParent) =>
        /\ ~last'.ok
        /\ last'.error # <<>>
        /\ last'.result = <<>>
        /\ tables' = tables

C21_MissingParentFails == [][C21_Step]_vars

C21_Witness ==
    /\ last.op = "createPropertyValue"
    /\ ~last.ok
    /\ last.input.instance_id \in IdsOf(instances)
    /\ last.input.property_id \notin IdsOf(properties)
    /\ propertyValues # <<>>

\* the ids of the rows of a sequence, as a set, and whether no id repeats
EachOnce(rows) == Cardinality(IdsOf(rows)) = Len(rows)

(* C22: getInstancesByType(t) returns exactly the instances whose type_id  *)
(* is t, each once, each with exactly the property values stored for that  *)
(* instance (none when it has none); the result is empty when no instance  *)
(* has type t.                                                             *)
C22_InstancesOfType ==
    (last.op = "getInstancesByType" /\ last.ok) =>
        LET t == last.input.typeId
            result == last.result
        IN  /\ IdsOf(result) = {instances[i].id : i \in {j \in DOMAIN instances :
                                                            instances[j].type_id = t}}
            /\ EachOnce(result)
            /\ \A i \in DOMAIN result :
                  LET values == result[i].property_values
                  IN  /\ result[i].type_id = t
                      /\ result[i].name = instances[result[i].id].name
                      /\ EachOnce(values)
                      /\ IdsOf(values) =
                             {propertyValues[k].id : k \in {j \in DOMAIN propertyValues :
                                 propertyValues[j].instance_id = result[i].id}}
                      /\ \A k \in DOMAIN values :
                            /\ values[k].value = propertyValues[values[k].id].value
                            /\ values[k].property_id =
                                   propertyValues[values[k].id].property_id
                            /\ values[k].property = properties[values[k].property_id]

C22_Witness ==
    /\ last.op = "getInstancesByType"
    /\ Len(last.result) = 2
    /\ \E i, j \in DOMAIN last.result :
          /\ last.result[i].property_values # <<>>
          /\ last.result[j].property_values = <<>>

(* C23: generateFakeOptions terminates for every correct answer and every  *)
(* property type: the while loop of the string branch never runs forever,  *)
(* also when the correct answer is "Option N" or an entry of the pool.     *)
C23_FakeOptionsTerminates ==
    fakeResult.done =>
        /\ fakeResult.value # <<<<"<", "l", "o", "o", "p", ">">>>>
        /\ Len(fakeResult.value) = 3

C23_Witness ==
    /\ FakesFor("string")
    /\ fakeArgs.correctAnswer = <<"O", "p", "t", "i", "o", "n", " ", "3">>
    /\ Len(fakeResult.value) = 3
    /\ fakeResult.value[3] # fakeArgs.correctAnswer

\* the entries of a multiple_choice card's options that were produced as
\* fakes: every entry but one occurrence of the correct answer
IsFakeOption(flashcard, option) ==
    /\ \E i \in DOMAIN flashcard.options.items : flashcard.options.items[i] = option
    /\ \/ option # flashcard.correct_answer
       \/ Cardinality({i \in DOMAIN flashcard.options.items :
                          flashcard.options.items[i] = flashcard.correct_answer}) > 1

(* C24: for every multiple_choice flashcard generateFlashcards produced,   *)
(* submitting an entry of options that was produced as a fake is graded    *)
(* incorrect; only the entry that is the stored value is graded correct.   *)
(* Fails: the fake "Unknown" of the string value "unknown" is graded       *)
(* correct, as are the fake "true" of the boolean value "True" and the     *)
(* fake "0" of the number value "0".                                       *)
C24_FakeOptionsGradedIncorrect ==
    (Answered /\ GradedCard.flashcard_type = "multiple_choice") =>
        /\ IsFakeOption(GradedCard, last.input.user_answer) =>
               ~GradedAnswer.is_correct
        /\ ~IsFakeOption(GradedCard, last.input.user_answer) =>
               GradedAnswer.is_correct

(* C25: for every flashcard generateFlashcards produced, of any of the     *)
(* three types, submitAnswer with the flashcard's own correct_answer as    *)
(* user_answer is graded correct.                                          *)
C25_OwnAnswerIsCorrect ==
    (Answered /\ last.input.user_answer = GradedCard.correct_answer) =>
        GradedAnswer.is_correct

C25_Witness ==
    /\ Answered
    /\ GradedCard.flashcard_type = "fill_in_blank"
    /\ last.input.user_answer = GradedCard.correct_answer
    /\ trim(GradedCard.correct_answer) # GradedCard.correct_answer
    /\ GradedAnswer.is_correct
    /\ \E c \in DOMAIN flashcards :
          /\ flashcards[c].flashcard_type = "true_false"
          /\ flashcards[c].correct_answer # GradedCard.correct_answer

(* C26: each stored property value's property belongs to the data type of  *)
(* its instance, and so does the property of each generated flashcard.     *)
(* Fails: createPropertyValue checks that the instance and the property    *)
(* exist, not that they have the same type_id.                             *)
C26_PropertyOfInstanceType ==
    /\ \A v \in DOMAIN propertyValues :
          properties[propertyValues[v].property_id].type_id =
              instances[propertyValues[v].instance_id].type_id
    /\ \A c \in DOMAIN flashcards :
          properties[flashcards[c].property_id].type_id =
              instances[flashcards[c].instance_id].type_id

\* C27: in every state that overlapping handler calls can reach, every
\* property and every instance references a stored data type, every property
\* value a stored instance and a stored property, every flashcard a stored
\* instance and a stored property, and every answer a stored flashcard. No
\* handler deletes a row, so a parent found by a look-up is still stored when
\* the insert that follows it runs.
C27_ReferentialIntegrity ==
    /\ \A p \in DOMAIN properties : properties[p].type_id \in IdsOf(dataTypes)
    /\ \A i \in DOMAIN instances : instances[i].type_id \in IdsOf(dataTypes)
    /\ \A v \in DOMAIN propertyValues :
          /\ propertyValues[v].instance_id \in IdsOf(instances)
          /\ propertyValues[v].property_id \in IdsOf(properties)
    /\ \A c \in DOMAIN flashcards :
          /\ flashcards[c].instance_id \in IdsOf(instances)
          /\ flashcards[c].property_id \in IdsOf(properties)
    /\ \A a \in DOMAIN answers : answers[a].flashcard_id \in IdsOf(flashcards)

\* a createInstance call has returned its row while another call, which had
\* already found its parent, was still waiting for its insert
C27_Witness ==
    \E r \in DOMAIN runs, q \in DOMAIN runs :
        /\ r # q
        /\ runs[r].pc = "idle"
        /\ last.op = "createInstance" /\ last.ok
        /\ runs[q].pc \in {"insertProperty", "insertInstance", "insertPropertyValue",
                           "insertAnswer", "insert"}

\* C28: in every state of a practice session, whatever the order of start,
\* select / type, submit (button or Enter, answered or failed), next and
\* reset, 0 <= score <= completed <= flashcards.length and
\* 0 <= currentIndex < flashcards.length, and while the session is started a
\* card is counted once: completed = currentIndex + (showResult ? 1 : 0).
C28_SessionCounters ==
    LET g == player.gameState
        n == Len(player.flashcards)
    IN  /\ 0 <= g.score /\ g.score <= g.completed /\ g.completed <= n
        /\ 0 <= g.currentIndex /\ g.currentIndex < n
        /\ g.gameStarted =>
              g.completed = g.currentIndex + (IF g.showResult THEN 1 ELSE 0)

\* a session played to its end, with an answer graded correct and an answer
\* graded incorrect
C28_Witness ==
    /\ player.gameState.gameStarted
    /\ player.gameState.completed = Len(player.flashcards)
    /\ 0 < player.gameState.score
    /\ player.gameState.score < player.gameState.completed

\* C29: when the answer to a card of the started session has been submitted
\* and graded, the component renders the result display of that answer, also
\* for the last card of the list. It fails for the last card: completed then
\* equals flashcards.length and the session-complete return comes first in
\* the render.
C29_Step ==
    (/\ player.request # <<>>
     /\ player'.request = <<>>
     /\ player.gameState.gameStarted
     /\ player'.gameState.completed = player.gameState.completed + 1)
    => View' = "result"

C29_ResultShownAfterSubmit == [][C29_Step]_vars

\* C30: once the handler started by a click on Generate All in a data type's
\* Quick Generate row has returned without a failed request, the
\* generateFlashcards requests it sent are those for the instances of the
\* clicked type that have a property value, whatever type was selected
\* before. It fails: the handler reads selectedTypeId and availableInstances
\* of the render before the click.
C30_GenerateAllForClickedType ==
    (/\ generator.clicked # 0
     /\ ~generator.isGenerating
     /\ ~generator.failed)
    => generator.issued = idsIn(typeInstances(generator.clicked))

====
